---- MODULE Spec2Model ----
(***************************************************************************)
(* The grootboek (general ledger) of zzp-rs: the text parser, the balance  *)
(* check and the account tree that run on its output, the account paths,   *)
(* the rendering of amounts, and the gregorian calendar.                   *)
(*                                                                         *)
(* A string is a sequence of characters; a character is a one-character    *)
(* TLA+ string, except "EUR", which stands for the single character        *)
(* U+20AC (three bytes in UTF-8).  Byte offsets matter in one place:       *)
(* Mutation::parse_from_str slices the first BYTE of the amount token.     *)
(*                                                                         *)
(* Each part of the program has its own variables and its own              *)
(* specification; the variables of the other parts stay at their idle      *)
(* values.                                                                 *)
(***************************************************************************)
EXTENDS Integers, Sequences, FiniteSets, TLC

VARIABLES
    data,        \* the ledger text handed to Transaction::parse_from_str
    lines,       \* the std::str::Lines iterator: the lines not yet consumed
    pc,          \* "header": in the header loop, "body": in the tag/mutation loop,
                 \* "done": parse_from_str returned, "checked": find_unbalanced ran
    txn,         \* locals date, description, tags, mutations of parse_from_lines
    output,      \* the Vec of parse_from_str
    result,      \* what parse_from_str returned
    unbalanced   \* what find_unbalanced yielded for the parsed transactions

ledgerVars == <<data, lines, pc, txn, output, result, unbalanced>>

VARIABLES
    overflow_checks  \* the build profile: TRUE when integer overflow panics
                     \* (debug builds), FALSE when it wraps (release builds)

VARIABLES
    seen,        \* the transactions compute_totals has taken from its iterator
    cursor,      \* how many mutations of the last one of them are inserted
    totals,      \* the Tree<Cents> of compute_totals (`root`)
    tpc          \* "idle", "loop": in compute_totals, "returned", "panic"

treeVars == <<seen, cursor, totals, tpc>>

VARIABLES
    self,        \* the Account a method is called on (its raw string)
    argument,    \* the prefix or the other account the method is given
    returned     \* the method called and what it returned

accountVars == <<self, argument, returned>>

VARIABLES
    wtxn,        \* the Transaction handed to write_full
    out,         \* what write_full has written to its writer
    reread,      \* what Transaction::parse_from_str returned for that text
    wpc          \* "idle", "start", "written", "reread"

writeVars == <<wtxn, out, reread, wpc>>

VARIABLES
    args,        \* the year, month and day numbers given to Date::new
    made,        \* what Date::new returned
    trail,       \* the Date that was made and the Dates next() and prev() returned
    calls,       \* the names of the calls that returned trail[2], trail[3], ...
    shown,       \* the Display text of the last Date of the trail
    reparsed,    \* what Date::from_str returned for that text
    cpc          \* "idle", "start", "made", "derived", "shown", "parsed", "panic"

calendarVars == <<args, made, trail, calls, shown, reparsed, cpc>>

VARIABLES
    subject,     \* the value a function of one argument is called with
    answer       \* the function called and what it returned

pureVars == <<subject, answer>>

vars == <<overflow_checks, ledgerVars, treeVars, accountVars, writeVars, calendarVars,
          pureVars>>

\* the build profile and the variables of the other parts
ledgerOthers == <<overflow_checks, treeVars, accountVars, writeVars, calendarVars, pureVars>>
treeOthers == <<overflow_checks, ledgerVars, accountVars, writeVars, calendarVars, pureVars>>
accountOthers == <<overflow_checks, ledgerVars, treeVars, writeVars, calendarVars, pureVars>>
writeOthers == <<overflow_checks, ledgerVars, treeVars, accountVars, calendarVars, pureVars>>
calendarOthers == <<overflow_checks, ledgerVars, treeVars, accountVars, writeVars, pureVars>>
pureOthers == <<overflow_checks, ledgerVars, treeVars, accountVars, writeVars, calendarVars>>

----------------------------------------------------------------------------
(* Characters and std string operations                                    *)

Digit == {"0", "1", "2", "3", "4", "5", "6", "7", "8", "9"}

Letter == {"a", "b", "c", "d", "e", "k", "v", "x", "z", "A", "Z"}

DigitVal == ("0" :> 0) @@ ("1" :> 1) @@ ("2" :> 2) @@ ("3" :> 3) @@ ("4" :> 4) @@
            ("5" :> 5) @@ ("6" :> 6) @@ ("7" :> 7) @@ ("8" :> 8) @@ ("9" :> 9)

\* char::len_utf8
Utf8Len(c) == IF c = "EUR" THEN 3 ELSE 1

\* str::len: the length in bytes
RECURSIVE ByteLen(_)
ByteLen(s) == IF s = <<>> THEN 0 ELSE Utf8Len(Head(s)) + ByteLen(Tail(s))

\* char::is_whitespace, as str::trim uses it
IsWhitespace(c) == c \in {" ", "\t", "\r", "\n"}

\* char::is_ascii_alphanumeric
IsAsciiAlphanumeric(c) == c \in Digit \cup Letter

RECURSIVE TrimStart(_)
TrimStart(s) ==
    IF s # <<>> /\ IsWhitespace(Head(s)) THEN TrimStart(Tail(s)) ELSE s

RECURSIVE TrimEnd(_)
TrimEnd(s) ==
    IF s # <<>> /\ IsWhitespace(s[Len(s)]) THEN TrimEnd(SubSeq(s, 1, Len(s) - 1)) ELSE s

\* str::trim
Trim(s) == TrimEnd(TrimStart(s))

\* str::starts_with(char)
StartsWith(s, c) == s # <<>> /\ Head(s) = c

\* str::find(char): the index of the first occurrence, 0 when there is none
Find(s, c) ==
    IF \E i \in 1..Len(s) : s[i] = c
    THEN CHOOSE i \in 1..Len(s) : s[i] = c /\ \A j \in 1..(i - 1) : s[j] # c
    ELSE 0

\* partition(data, seperator): data.splitn(2, seperator), None unless it yields two parts
Partition(s, c) ==
    LET i == Find(s, c) IN
    IF i = 0
    THEN [found |-> FALSE, left |-> s, right |-> <<>>]
    ELSE [found |-> TRUE, left |-> SubSeq(s, 1, i - 1), right |-> SubSeq(s, i + 1, Len(s))]

\* str::splitn(n, char)
RECURSIVE SplitN(_, _, _)
SplitN(s, n, c) ==
    LET i == Find(s, c) IN
    IF n <= 1 \/ i = 0
    THEN <<s>>
    ELSE <<SubSeq(s, 1, i - 1)>> \o SplitN(SubSeq(s, i + 1, Len(s)), n - 1, c)

\* str::lines: split on "\n", no final empty line, a trailing "\r" is stripped
Lines(text) ==
    LET parts == SplitN(text, Len(text) + 1, "\n")
        kept  == IF parts[Len(parts)] = <<>> THEN SubSeq(parts, 1, Len(parts) - 1) ELSE parts
        strip(l) == IF l # <<>> /\ l[Len(l)] = "\r" THEN SubSeq(l, 1, Len(l) - 1) ELSE l
    IN [i \in 1..Len(kept) |-> strip(kept[i])]

I32Max == 2147483647
I32Min == -I32Max - 1

\* i32 addition, wrapping in two's complement (a + b -+ 2^32 on overflow) as a
\* build without overflow checks does; a build with overflow checks panics there.
\* The sums below avoid every intermediate value outside the i32 range.
I32Add(a, b) ==
    IF b > 0 /\ a > I32Max - b THEN (a - I32Max - 1) + (b - I32Max - 1)
    ELSE IF b < 0 /\ a < I32Min - b THEN (a + I32Max + 1) + (b + I32Max + 1)
    ELSE a + b

\* i32 multiplication by 100 = 64 + 32 + 4, wrapping
I32Mul100(a) ==
    LET a2  == I32Add(a, a)
        a4  == I32Add(a2, a2)
        a8  == I32Add(a4, a4)
        a16 == I32Add(a8, a8)
        a32 == I32Add(a16, a16)
        a64 == I32Add(a32, a32)
    IN I32Add(I32Add(a64, a32), a4)

\* i32 multiplication by a sign of 1 or -1, wrapping
I32MulSign(a, sign) ==
    IF sign = 1 THEN a ELSE IF a = I32Min THEN I32Min ELSE -a

\* an i32 as the pair of its upper and lower 16 bits, and the mathematical sum
\* of the amounts of ms as such a pair: no part of it leaves the i32 range
Wide(a) == [hi |-> a \div 65536, lo |-> a % 65536]

RECURSIVE WideParts(_)
WideParts(ms) ==
    IF ms = <<>> THEN [hi |-> 0, lo |-> 0]
    ELSE LET rest == WideParts(Tail(ms))
             head == Wide(Head(ms).amount)
         IN [hi |-> rest.hi + head.hi, lo |-> rest.lo + head.lo]

MathSum(ms) ==
    LET parts == WideParts(ms)
    IN [hi |-> parts.hi + parts.lo \div 65536, lo |-> parts.lo % 65536]

RECURSIVE DigitsValue(_)
DigitsValue(ds) ==
    IF ds = <<>> THEN 0 ELSE 10 * DigitsValue(SubSeq(ds, 1, Len(ds) - 1)) + DigitVal[ds[Len(ds)]]

RECURSIVE StripZeros(_)
StripZeros(ds) == IF ds # <<>> /\ Head(ds) = "0" THEN StripZeros(Tail(ds)) ELSE ds

\* ds <= limit for two digit strings of the same length
RECURSIVE DigitsLeq(_, _)
DigitsLeq(ds, limit) ==
    IF ds = <<>> THEN TRUE
    ELSE IF DigitVal[Head(ds)] # DigitVal[Head(limit)]
    THEN DigitVal[Head(ds)] < DigitVal[Head(limit)]
    ELSE DigitsLeq(Tail(ds), Tail(limit))

\* the digits denote a number of the i32 range (2147483647, or 2147483648 when negative)
FitsI32(ds, negative) ==
    LET sig == StripZeros(ds) IN
    \/ Len(sig) < 10
    \/ /\ Len(sig) = 10
       /\ DigitsLeq(sig, <<"2", "1", "4", "7", "4", "8", "3", "6", "4",
                           IF negative THEN "8" ELSE "7">>)

\* str::parse::<i32>: an optional '+' or '-', then one or more ASCII digits, in range
ParseI32(s) ==
    LET signed   == s # <<>> /\ s[1] \in {"+", "-"}
        negative == signed /\ s[1] = "-"
        ds       == IF signed THEN Tail(s) ELSE s
    IN IF ds = <<>> \/ \E i \in 1..Len(ds) : ds[i] \notin Digit
       THEN [ok |-> FALSE, val |-> 0]
       ELSE IF ~FitsI32(ds, negative)
       THEN [ok |-> FALSE, val |-> 0]
       ELSE IF negative /\ StripZeros(ds) = <<"2", "1", "4", "7", "4", "8", "3", "6", "4", "8">>
       THEN [ok |-> TRUE, val |-> I32Min]
       ELSE [ok |-> TRUE, val |-> IF negative THEN -DigitsValue(ds) ELSE DigitsValue(ds)]

----------------------------------------------------------------------------
(* grootboek/date.rs                                                       *)

\* integer `/` and `%` of Rust for a positive divisor: the quotient is rounded
\* toward zero and the remainder has the sign of the dividend
TruncDiv(a, b) == IF a < 0 /\ a % b # 0 THEN (a \div b) + 1 ELSE a \div b

TruncRem(a, b) == IF a < 0 /\ a % b # 0 THEN (a % b) - b ELSE a % b

is_leap_year(year) ==
    IF TruncRem(year, 400) = 0 THEN TRUE
    ELSE IF TruncRem(year, 100) = 0 THEN FALSE
    ELSE TruncRem(year, 4) = 0

days_in_month(month, leap_year) ==
    CASE month = 2 /\ ~leap_year -> 28
      [] month = 2 /\ leap_year -> 29
      [] month \in {4, 6, 9, 11} -> 30
      [] OTHER -> 31

NoDate == [year |-> 0, month |-> 0, day |-> 0]

\* Date::from_parts
from_parts(year, month, day) ==
    IF month < 1 \/ month > 12
    THEN [ok |-> FALSE, date |-> NoDate]
    ELSE IF day < 1 \/ day > days_in_month(month, is_leap_year(year))
    THEN [ok |-> FALSE, date |-> NoDate]
    ELSE [ok |-> TRUE, date |-> [year |-> year, month |-> month, day |-> day]]

\* Date::parse_from_str
DateParse(s) ==
    LET components == SplitN(s, 3, "-")
        field(i)   == IF i <= Len(components) THEN ParseI32(components[i])
                      ELSE [ok |-> FALSE, val |-> 0]
    IN IF ~field(1).ok \/ ~field(2).ok \/ ~field(3).ok
       THEN [ok |-> FALSE, date |-> NoDate]
       ELSE from_parts(field(1).val, field(2).val, field(3).val)

----------------------------------------------------------------------------
(* grootboek/parse.rs: the line parsers                                    *)

NoDetails == <<"", "">>

\* a tag parser for which a line with another label is no tag at all
TagParseValidLabelsOnly(line) ==
    LET d     == Trim(line)
        p     == Partition(d, ":")
        label == Trim(p.left)
        value == Trim(p.right)
    IN IF ~p.found \/ \E i \in 1..Len(label) : ~IsAsciiAlphanumeric(label[i]) /\ label[i] # "-"
       THEN [kind |-> "None", label |-> <<>>, value |-> <<>>,
             details |-> NoDetails, token |-> <<>>]
       ELSE [kind |-> "Ok", label |-> label, value |-> value,
             details |-> NoDetails, token |-> <<>>]

\* Tag::parse_from_str: Option<Result<Tag, ParseError>>
TagParse(line) ==
    LET d     == Trim(line)
        p     == Partition(d, ":")
        label == Trim(p.left)
        value == Trim(p.right)
    IN IF ~p.found
       THEN [kind |-> "None", label |-> <<>>, value |-> <<>>,
             details |-> NoDetails, token |-> <<>>]
       ELSE IF \E i \in 1..Len(label) : ~IsAsciiAlphanumeric(label[i]) /\ label[i] # "-"
       THEN [kind |-> "Err", label |-> <<>>, value |-> <<>>,
             details |-> <<"InvalidTag", "InvalidLabel">>, token |-> label]
       ELSE [kind |-> "Ok", label |-> label, value |-> value,
             details |-> NoDetails, token |-> <<>>]

\* Cents::parse_from_str: Result<Cents, ()>
CentsParse(s) ==
    LET p == Partition(s, ".") IN
    IF p.found
    THEN IF ByteLen(p.right) # 2
         THEN [ok |-> FALSE, val |-> 0]
         ELSE LET whole    == ParseI32(p.left)
                  decimals == ParseI32(p.right)
              IN IF ~whole.ok \/ ~decimals.ok
                 THEN [ok |-> FALSE, val |-> 0]
                 ELSE [ok |-> TRUE, val |-> I32Add(I32Mul100(whole.val), decimals.val)]
    ELSE LET whole == ParseI32(s)
         IN IF ~whole.ok
            THEN [ok |-> FALSE, val |-> 0]
            ELSE [ok |-> TRUE, val |-> I32Mul100(whole.val)]

NoMutation == [amount |-> 0, account |-> <<>>]

MutationOutcome(kind, mutation, details, token) ==
    [kind |-> kind, mutation |-> mutation, details |-> details, token |-> token]

\* the match on &amount[0..1]: the first byte of the amount token as a str.
\* Slicing panics when byte 1 is past the end or inside a character.
SignOf(amount) ==
    IF amount = <<>> \/ Utf8Len(amount[1]) # 1 THEN "panic"
    ELSE IF amount[1] = "-" THEN "minus"
    ELSE IF amount[1] = "+" THEN "plus"
    ELSE "other"

\* Mutation::parse_from_str
MutationParse(line) ==
    LET d       == Trim(line)
        p       == Partition(d, " ")
        amount  == Trim(p.left)
        account == Trim(p.right)
        sign    == SignOf(amount)
        cents   == CentsParse(Tail(amount))
    IN IF ~p.found
       THEN MutationOutcome("Err", NoMutation, <<"InvalidMutation", "MissingAccount">>, d)
       ELSE IF sign = "panic"
       THEN MutationOutcome("Panic", NoMutation, NoDetails, <<>>)
       ELSE IF sign = "other"
       THEN MutationOutcome("Err", NoMutation, <<"InvalidMutation", "MissingSign">>, amount)
       ELSE IF ~cents.ok
       THEN MutationOutcome("Err", NoMutation, <<"InvalidMutation", "InvalidAmount">>, amount)
       ELSE MutationOutcome("Ok",
                [amount  |-> I32MulSign(cents.val, IF sign = "minus" THEN -1 ELSE 1),
                 account |-> account],
                NoDetails, <<>>)

NoTxn == [date |-> NoDate, description |-> <<>>, tags |-> <<>>, mutations |-> <<>>]

\* a header parser that reports a bad date with the whole header line
HeaderParseLineToken(header) ==
    LET p           == Partition(header, ":")
        date        == Trim(p.left)
        description == Trim(p.right)
        parsed      == DateParse(date)
    IN IF ~p.found \/ description = <<>>
       THEN [kind |-> "Err", txn |-> NoTxn,
             details |-> <<"InvalidTransactionHeader", "MissingDescription">>, token |-> header]
       ELSE IF ~parsed.ok
       THEN [kind |-> "Err", txn |-> NoTxn,
             details |-> <<"InvalidTransactionHeader", "InvalidDate">>, token |-> header]
       ELSE [kind |-> "Ok",
             txn  |-> [date |-> parsed.date, description |-> description,
                       tags |-> <<>>, mutations |-> <<>>],
             details |-> NoDetails, token |-> <<>>]

\* the header part of Transaction::parse_from_lines, on the trimmed header line
HeaderParse(header) ==
    LET p           == Partition(header, ":")
        date        == Trim(p.left)
        description == Trim(p.right)
        parsed      == DateParse(date)
    IN IF ~p.found
       THEN [kind |-> "Err", txn |-> NoTxn,
             details |-> <<"InvalidTransactionHeader", "MissingDescription">>, token |-> header]
       ELSE IF description = <<>>
       THEN [kind |-> "Err", txn |-> NoTxn,
             details |-> <<"InvalidTransactionHeader", "MissingDescription">>, token |-> header]
       ELSE IF ~parsed.ok
       THEN [kind |-> "Err", txn |-> NoTxn,
             details |-> <<"InvalidTransactionHeader", "InvalidDate">>, token |-> date]
       ELSE [kind |-> "Ok",
             txn  |-> [date |-> parsed.date, description |-> description,
                       tags |-> <<>>, mutations |-> <<>>],
             details |-> NoDetails, token |-> <<>>]

----------------------------------------------------------------------------
(* grootboek/parse.rs: Transaction::parse_from_str and parse_from_lines,   *)
(* one step per line taken from the iterator.  A parser state is the       *)
(* record of the iterator, the position and the locals.                    *)

Running == [kind |-> "Running", value |-> <<>>, details |-> NoDetails, token |-> <<>>]

\* Ok(output)
OkResult(transactions) ==
    [kind |-> "Ok", value |-> transactions, details |-> NoDetails, token |-> <<>>]

\* Err(ParseError { details, token }): the output vector is dropped
ErrResult(details, token) ==
    [kind |-> "Err", value |-> <<>>, details |-> details, token |-> token]

\* the thread unwinds: parse_from_str returns nothing
PanicResult == [kind |-> "Panic", value |-> <<>>, details |-> NoDetails, token |-> <<>>]

\* data.lines(), an empty output vector, and the first call of parse_from_lines
Start(text) ==
    [lines |-> Lines(text), pc |-> "header", txn |-> NoTxn, output |-> <<>>, result |-> Running]

\* parse_from_str returns r; its locals are gone, the iterator keeps its position
Return(s, r) ==
    [s EXCEPT !.lines = IF s.lines = <<>> THEN <<>> ELSE Tail(s.lines),
              !.pc = "done", !.txn = NoTxn, !.output = <<>>, !.result = r]

\* `!line.starts_with('#') && !line.is_empty()` negated, on a trimmed line
Skippable(line) == StartsWith(line, "#") \/ line = <<>>

HeaderSkipEnabled(s) ==
    s.pc = "header" /\ s.lines # <<>> /\ Skippable(Trim(Head(s.lines)))

\* a parser that takes an empty line between blocks for the end of input
HeaderSkipStepStopsAtBlank(s) ==
    IF Trim(Head(s.lines)) = <<>>
    THEN Return(s, OkResult(s.output))
    ELSE [s EXCEPT !.lines = Tail(s.lines)]

\* header loop: a comment or an empty line is skipped
HeaderSkipStep(s) == [s EXCEPT !.lines = Tail(s.lines)]

HeaderLineEnabled(s) ==
    s.pc = "header" /\ s.lines # <<>> /\ ~Skippable(Trim(Head(s.lines)))

\* a parser that skips a header it cannot read and looks for the next one
HeaderLineStepLenient(s) ==
    LET h == HeaderParse(Trim(Head(s.lines))) IN
    IF h.kind = "Err"
    THEN [s EXCEPT !.lines = Tail(s.lines)]
    ELSE [s EXCEPT !.lines = Tail(s.lines), !.pc = "body", !.txn = h.txn]

\* header loop: the header line is split and its date parsed
HeaderLineStep(s) ==
    LET h == HeaderParse(Trim(Head(s.lines))) IN
    IF h.kind = "Err"
    THEN Return(s, ErrResult(h.details, h.token))
    ELSE [s EXCEPT !.lines = Tail(s.lines), !.pc = "body", !.txn = h.txn]

HeaderEofEnabled(s) == s.pc = "header" /\ s.lines = <<>>

\* header loop at the end of input: parse_from_lines returns Ok(None),
\* the while-let loop of parse_from_str ends and it returns Ok(output)
HeaderEofStep(s) == Return(s, OkResult(s.output))

BodyBlankEnabled(s) ==
    s.pc = "body" /\ s.lines # <<>> /\ Trim(Head(s.lines)) = <<>>

\* body loop: an empty line ends the block; parse_from_str pushes the
\* transaction and calls parse_from_lines again
BodyBlankStep(s) ==
    [s EXCEPT !.lines = Tail(s.lines), !.pc = "header", !.txn = NoTxn,
              !.output = Append(s.output, s.txn)]

BodyCommentEnabled(s) ==
    s.pc = "body" /\ s.lines # <<>> /\ StartsWith(Trim(Head(s.lines)), "#")

\* a parser for which a comment ends the block as an empty line does
BodyCommentStepEndsBlock(s) == BodyBlankStep(s)

\* body loop: a comment is ignored
BodyCommentStep(s) == [s EXCEPT !.lines = Tail(s.lines)]

BodyTagEnabled(s) ==
    /\ s.pc = "body" /\ s.lines # <<>>
    /\ ~Skippable(Trim(Head(s.lines)))
    /\ TagParse(Trim(Head(s.lines))).kind # "None"

\* a parser that takes tags anywhere in the block
BodyTagStepAnywhere(s) ==
    LET line == Trim(Head(s.lines))
        tag  == TagParse(line)
    IN IF tag.kind = "Err"
       THEN Return(s, ErrResult(tag.details, tag.token))
       ELSE [s EXCEPT !.lines = Tail(s.lines),
                      !.txn.tags = Append(s.txn.tags,
                                          [label |-> tag.label, value |-> tag.value])]

\* body loop: the line looks like a tag
BodyTagStep(s) ==
    LET line == Trim(Head(s.lines))
        tag  == TagParse(line)
    IN IF s.txn.mutations = <<>>
       THEN IF tag.kind = "Err"
            THEN Return(s, ErrResult(tag.details, tag.token))
            ELSE [s EXCEPT !.lines = Tail(s.lines),
                           !.txn.tags = Append(s.txn.tags,
                                               [label |-> tag.label, value |-> tag.value])]
       ELSE Return(s, ErrResult(<<"InvalidTag", "TagAfterMutation">>, line))

BodyMutationEnabled(s) ==
    /\ s.pc = "body" /\ s.lines # <<>>
    /\ ~Skippable(Trim(Head(s.lines)))
    /\ TagParse(Trim(Head(s.lines))).kind = "None"

\* body loop: any other line is parsed as a mutation
BodyMutationStep(s) ==
    LET m == MutationParse(Trim(Head(s.lines))) IN
    CASE m.kind = "Ok" ->
            [s EXCEPT !.lines = Tail(s.lines),
                      !.txn.mutations = Append(s.txn.mutations, m.mutation)]
      [] m.kind = "Err" -> Return(s, ErrResult(m.details, m.token))
      [] OTHER -> Return(s, PanicResult)

BodyEofEnabled(s) == s.pc = "body" /\ s.lines = <<>>

\* a parser that drops a block that no empty line ends
BodyEofStepDropsBlock(s) == [s EXCEPT !.pc = "header", !.txn = NoTxn]

\* body loop at the end of input: the block ends as with an empty line
BodyEofStep(s) ==
    [s EXCEPT !.pc = "header", !.txn = NoTxn, !.output = Append(s.output, s.txn)]

\* the step the parser takes in state s
ParseStep(s) ==
    CASE HeaderSkipEnabled(s)   -> HeaderSkipStep(s)
      [] HeaderLineEnabled(s)   -> HeaderLineStep(s)
      [] HeaderEofEnabled(s)    -> HeaderEofStep(s)
      [] BodyBlankEnabled(s)    -> BodyBlankStep(s)
      [] BodyCommentEnabled(s)  -> BodyCommentStep(s)
      [] BodyTagEnabled(s)      -> BodyTagStep(s)
      [] BodyMutationEnabled(s) -> BodyMutationStep(s)
      [] BodyEofEnabled(s)      -> BodyEofStep(s)

RECURSIVE Run(_)
Run(s) == IF s.pc = "done" THEN s ELSE Run(ParseStep(s))

\* Transaction::parse_from_str on the lines ls of a text
ParseLines(ls) ==
    Run([lines |-> ls, pc |-> "header", txn |-> NoTxn, output |-> <<>>,
         result |-> Running]).result

\* Transaction::parse_from_str
ParseFromStr(text) == ParseLines(Lines(text))

----------------------------------------------------------------------------
(* tools/src/bin/grootboek.rs: the balance check                           *)

\* the fold of find_unbalanced: Cents(0) + amount + amount + ...
RECURSIVE Balance(_)
Balance(mutations) ==
    IF mutations = <<>> THEN 0
    ELSE I32Add(Balance(SubSeq(mutations, 1, Len(mutations) - 1)),
                mutations[Len(mutations)].amount)

\* find_unbalanced: filter_map over the transactions, in order
RECURSIVE find_unbalanced(_)
find_unbalanced(transactions) ==
    IF transactions = <<>> THEN <<>>
    ELSE LET transaction == Head(transactions)
             balance     == Balance(transaction.mutations)
         IN (IF balance # 0
             THEN <<[transaction |-> transaction, balance |-> balance]>>
             ELSE <<>>) \o find_unbalanced(Tail(transactions))

----------------------------------------------------------------------------
(* The ledger texts the parser is run on                                   *)

MaxLines == 4
MaxAmountLen == 4
MaxMutations == 2

SeqsUpTo(S, n) == UNION {[1..k -> S] : k \in 0..n}

\* the lines joined by "\n"; a final empty line makes the final newline
RECURSIVE JoinLines(_)
JoinLines(ls) ==
    IF ls = <<>> THEN <<>>
    ELSE IF Len(ls) = 1 THEN ls[1]
    ELSE ls[1] \o <<"\n">> \o JoinLines(Tail(ls))

Blank      == <<>>
Comment    == <<"#", "c">>
Header1    == <<"1", "-", "2", "-", "3", ":", " ", "d">>
Header2    == <<"4", "-", "0", "2", "-", "2", "9", ":", " ", "e">>
TagLine    == <<"k", ":", " ", "v">>
Plus1a     == <<"+", "1", " ", "a">>
Minus1a    == <<"-", "1", " ", "a">>
Plus2ColB  == <<"+", "2", " ", "a", ":", "b">>

LineSet == {Blank, Comment, Header1, TagLine, Plus1a, Minus1a, Plus2ColB}

\* whole ledgers: every sequence of at most MaxLines lines of LineSet
LedgerTexts == {JoinLines(ls) : ls \in SeqsUpTo(LineSet, MaxLines)}

YearTexts  == {<<"4">>, <<"1">>, <<"x">>}
MonthTexts == {<<"0">>, <<"0", "2">>, <<"1", "2">>, <<"1", "3">>}
DayTexts   == {<<"0">>, <<"2", "8">>, <<"2", "9">>, <<"3", "0">>, <<"x">>, <<"1", "-", "1">>}

DateTexts ==
    {y \o <<"-">> \o m \o <<"-">> \o d : y \in YearTexts, m \in MonthTexts, d \in DayTexts}
    \cup {y \o <<"-">> \o m : y \in YearTexts, m \in MonthTexts}
    \cup YearTexts

HeaderTails == {<<>>, <<":">>, <<":", " ">>, <<" ", ":", " ", "d", " ">>, <<":", "d", ":", "e">>}

\* one header line: a date text or a part of one, then the rest of the line
HeaderTexts ==
    {pre \o date \o tail :
        pre \in {<<>>, <<" ">>}, date \in DateTexts, tail \in HeaderTails}

FirstChars   == {"+", "-", "5", "x", ".", "EUR"}
AmountRests  == {<<>>, <<"5">>, <<"5", ".", "0", "0">>}
AccountParts == {<<>>, <<" ", "a">>, <<" ", " ", "a", "/", "b", " ">>, <<"\t", "a">>,
                 <<"\t", " ", "a", " ", "b">>}

\* a header and one mutation line: any first character, with and without a space
MutationTexts ==
    {JoinLines(<<Header1, pre \o <<first>> \o rest \o acc>>) :
        pre \in {<<>>, <<" ">>}, first \in FirstChars, rest \in AmountRests,
        acc \in AccountParts}

AmountAlphabet == {"0", "7", ".", "-", "x"}

\* a header and one mutation line: a sign, then any text of at most MaxAmountLen
\* characters of AmountAlphabet, then the account
AmountTexts ==
    {JoinLines(<<Header1, <<sign>> \o rest \o <<" ", "a">>>>) :
        sign \in {"+", "-"}, rest \in SeqsUpTo(AmountAlphabet, MaxAmountLen)}

Plus10a  == <<"+", "1", "0", ".", "0", "0", " ", "a">>
Minus5b  == <<"-", "5", ".", "0", "0", " ", "b">>
Minus10b == <<"-", "1", "0", ".", "0", "0", " ", "b">>

\* two blocks of at most MaxMutations mutations each, balanced or not
BalanceTexts ==
    {JoinLines(<<Header1>> \o ms1 \o <<Blank, Header2>> \o ms2) :
        ms1 \in SeqsUpTo({Plus10a, Minus5b, Minus10b}, MaxMutations),
        ms2 \in SeqsUpTo({Plus10a, Minus5b, Minus10b}, MaxMutations)}

PlusMaxa == <<"+", "2", "1", "4", "7", "4", "8", "3", "6", ".", "4", "7", " ", "a">>
Plus002a == <<"+", "0", ".", "0", "2", " ", "a">>

\* one block whose amounts add up to 2^32 - 2 and one whose amounts add up to 2^32
LargeTexts ==
    {JoinLines(<<Header1, PlusMaxa, PlusMaxa>>),
     JoinLines(<<Header1, PlusMaxa, PlusMaxa, Plus002a>>)}

Texts ==
    LedgerTexts \cup HeaderTexts \cup MutationTexts \cup AmountTexts \cup BalanceTexts
        \cup LargeTexts

----------------------------------------------------------------------------
(* The values the variables of a part have while another part runs         *)

\* Node::new
Node_new(node_account, node_data) ==
    [account |-> node_account, data |-> node_data, children |-> <<>>]

\* Tree::new: the root node has the empty account
Tree_new(root_data) == Node_new(<<>>, root_data)

NoCall == [op |-> "none", value |-> <<>>]

LedgerIdle ==
    /\ data = <<>>
    /\ lines = <<>>
    /\ pc = "idle"
    /\ txn = NoTxn
    /\ output = <<>>
    /\ result = Running
    /\ unbalanced = <<>>

TreeIdle ==
    /\ seen = <<>>
    /\ cursor = 0
    /\ totals = Tree_new(0)
    /\ tpc = "idle"

AccountIdle ==
    /\ self = <<>>
    /\ argument = <<>>
    /\ returned = NoCall

WriteIdle ==
    /\ wtxn = NoTxn
    /\ out = <<>>
    /\ reread = Running
    /\ wpc = "idle"

NoDateResult == [kind |-> "none", date |-> NoDate]

CalendarIdle ==
    /\ args = <<0, 0, 0>>
    /\ made = NoDateResult
    /\ trail = <<>>
    /\ calls = <<>>
    /\ shown = <<>>
    /\ reparsed = NoDateResult
    /\ cpc = "idle"

PureIdle ==
    /\ subject = <<>>
    /\ answer = NoCall

----------------------------------------------------------------------------
(* The state machine of the ledger parser and the balance check            *)

Cur == [lines |-> lines, pc |-> pc, txn |-> txn, output |-> output, result |-> result]

Become(s) ==
    /\ lines' = s.lines
    /\ pc' = s.pc
    /\ txn' = s.txn
    /\ output' = s.output
    /\ result' = s.result
    /\ UNCHANGED <<data, unbalanced, ledgerOthers>>

Init ==
    /\ data \in Texts
    /\ lines = Start(data).lines
    /\ pc = Start(data).pc
    /\ txn = Start(data).txn
    /\ output = Start(data).output
    /\ result = Start(data).result
    /\ unbalanced = <<>>
    /\ overflow_checks = FALSE
    /\ TreeIdle
    /\ AccountIdle
    /\ WriteIdle
    /\ CalendarIdle
    /\ PureIdle

HeaderSkip == HeaderSkipEnabled(Cur) /\ Become(HeaderSkipStep(Cur))

HeaderLine == HeaderLineEnabled(Cur) /\ Become(HeaderLineStep(Cur))

HeaderEof == HeaderEofEnabled(Cur) /\ Become(HeaderEofStep(Cur))

BodyBlank == BodyBlankEnabled(Cur) /\ Become(BodyBlankStep(Cur))

BodyComment == BodyCommentEnabled(Cur) /\ Become(BodyCommentStep(Cur))

BodyTag == BodyTagEnabled(Cur) /\ Become(BodyTagStep(Cur))

BodyMutation == BodyMutationEnabled(Cur) /\ Become(BodyMutationStep(Cur))

BodyEof == BodyEofEnabled(Cur) /\ Become(BodyEofStep(Cur))

\* do_main with --check and no date or account filter: the parsed transactions
\* go to find_unbalanced
FindUnbalanced ==
    /\ pc = "done"
    /\ result.kind = "Ok"
    /\ unbalanced' = find_unbalanced(result.value)
    /\ pc' = "checked"
    /\ UNCHANGED <<data, lines, txn, output, result, ledgerOthers>>

Next ==
    \/ HeaderSkip
    \/ HeaderLine
    \/ HeaderEof
    \/ BodyBlank
    \/ BodyComment
    \/ BodyTag
    \/ BodyMutation
    \/ BodyEof
    \/ FindUnbalanced

Spec == Init /\ [][Next]_vars

----------------------------------------------------------------------------
(* What the ledger format says about the lines of LineSet, stated without  *)
(* the parser: the expected reading of each well-formed line, and the      *)
(* block structure of a text.                                              *)

ExpectedHeader ==
    (Header1 :> [date |-> [year |-> 1, month |-> 2, day |-> 3], description |-> <<"d">>]) @@
    (Header2 :> [date |-> [year |-> 4, month |-> 2, day |-> 29], description |-> <<"e">>])

ExpectedTag ==
    (TagLine :> [label |-> <<"k">>, value |-> <<"v">>]) @@
    (Header1 :> [label |-> <<"1", "-", "2", "-", "3">>, value |-> <<"d">>]) @@
    (Header2 :> [label |-> <<"4", "-", "0", "2", "-", "2", "9">>, value |-> <<"e">>])

ExpectedMutation ==
    (Plus1a   :> [amount |-> 100, account |-> <<"a">>]) @@
    (Minus1a  :> [amount |-> -100, account |-> <<"a">>]) @@
    (Plus10a  :> [amount |-> 1000, account |-> <<"a">>]) @@
    (Minus5b  :> [amount |-> -500, account |-> <<"b">>]) @@
    (Minus10b :> [amount |-> -1000, account |-> <<"b">>])

IsComment(l) == \E i \in 1..Len(l) : l[i] = "#" /\ \A j \in 1..(i - 1) : IsWhitespace(l[j])

IsBlank(l) == \A i \in 1..Len(l) : IsWhitespace(l[i])

\* the runs of consecutive non-blank lines of ls, in order
RECURSIVE BlocksOf(_, _)
BlocksOf(ls, cur) ==
    IF ls = <<>> THEN (IF cur = <<>> THEN <<>> ELSE <<cur>>)
    ELSE IF IsBlank(Head(ls))
    THEN (IF cur = <<>> THEN <<>> ELSE <<cur>>) \o BlocksOf(Tail(ls), <<>>)
    ELSE BlocksOf(Tail(ls), Append(cur, Head(ls)))

\* b is a header, then tag lines, then mutation lines
WellFormedBlock(b) ==
    /\ b[1] \in DOMAIN ExpectedHeader
    /\ \E k \in 1..Len(b) :
          /\ \A i \in 2..k : b[i] \in DOMAIN ExpectedTag
          /\ \A i \in (k + 1)..Len(b) : b[i] \in DOMAIN ExpectedMutation

WellFormedText(ls) ==
    \A i \in 1..Len(BlocksOf(ls, <<>>)) : WellFormedBlock(BlocksOf(ls, <<>>)[i])

ExpectedTransaction(b) ==
    LET ts == SelectSeq(Tail(b), LAMBDA l : l \in DOMAIN ExpectedTag)
        ms == SelectSeq(Tail(b), LAMBDA l : l \in DOMAIN ExpectedMutation)
    IN [date        |-> ExpectedHeader[b[1]].date,
        description |-> ExpectedHeader[b[1]].description,
        tags        |-> [i \in 1..Len(ts) |-> ExpectedTag[ts[i]]],
        mutations   |-> [i \in 1..Len(ms) |-> ExpectedMutation[ms[i]]]]

ExpectedTransactions(ls) ==
    LET bs == BlocksOf(ls, <<>>) IN [i \in 1..Len(bs) |-> ExpectedTransaction(bs[i])]

WithoutComments(ls) == SelectSeq(ls, LAMBDA l : ~IsComment(l))

----------------------------------------------------------------------------
(* C1: a text of N well-formed blocks (header, tag lines, mutation lines), *)
(* each ended by a blank line or by the end of input, parses to Ok with    *)
(* exactly N transactions in file order, each with its block's date,       *)
(* description, tags and mutations in line order; the last block is        *)
(* returned also when neither a blank line nor a newline follows it.       *)
C1_WellFormedBlocksParse ==
    (pc = "done" /\ WellFormedText(Lines(data)))
        => /\ result = OkResult(ExpectedTransactions(Lines(data)))
           /\ Len(result.value) = Len(BlocksOf(Lines(data), <<>>))

\* two blocks of two mutations with different dates, the second one ended by
\* the end of input without a newline
C1_Witness ==
    /\ pc = "done"
    /\ WellFormedText(Lines(data))
    /\ Len(result.value) = 2
    /\ result.value[1].date # result.value[2].date
    /\ Len(result.value[1].mutations) = 2
    /\ Len(result.value[2].mutations) = 2
    /\ data[Len(data)] # "\n"

----------------------------------------------------------------------------
\* t occurs in l as a contiguous part
IsInfix(t, l) == \E i \in 1..(Len(l) + 1) : \E j \in (i - 1)..Len(l) : SubSeq(l, i, j) = t

\* the number of the first line at which the text stops being well-formed
FirstOffending(ls) ==
    CHOOSE k \in 1..Len(ls) :
        /\ ~WellFormedText(WithoutComments(SubSeq(ls, 1, k)))
        /\ \A j \in 0..(k - 1) : WellFormedText(WithoutComments(SubSeq(ls, 1, j)))

Erroneous(ls) ==
    /\ \A i \in 1..Len(ls) : ls[i] \in LineSet
    /\ ~WellFormedText(WithoutComments(ls))

----------------------------------------------------------------------------
\* LABEL: VALUE with a label of ASCII alphanumerics and '-' only
TagShaped(l) ==
    \E i \in 1..Len(l) :
        /\ l[i] = ":"
        /\ \A j \in 1..(i - 1) : l[j] # ":"
        /\ \A j \in 1..Len(Trim(SubSeq(l, 1, i - 1))) :
              Trim(SubSeq(l, 1, i - 1))[j] \in Digit \cup Letter \cup {"-"}

HasColon(l) == \E i \in 1..Len(l) : l[i] = ":"

\* in an accepted text no tag-shaped line follows, in the same block, a line
\* that is neither blank nor a comment and has no ':'
TagsBeforeMutations(ls) ==
    \A i \in 1..Len(ls) : \A j \in (i + 1)..Len(ls) :
        ~ /\ \A m \in i..j : ~IsBlank(ls[m])
          /\ ~IsComment(ls[i]) /\ ~HasColon(ls[i])
          /\ TagShaped(ls[j])

C3_TagAfterMutationStep ==
    (pc = "body" /\ txn.mutations # <<>> /\ lines # <<>> /\ TagShaped(Trim(Head(lines))))
        => /\ pc' = "done"
           /\ result' = ErrResult(<<"InvalidTag", "TagAfterMutation">>, Trim(Head(lines)))

(* C3: in a block, once a mutation line has been accepted, a tag-shaped    *)
(* line makes the parse fail with InvalidTag(TagAfterMutation) and the     *)
(* trimmed line as token; so in every accepted text the tag lines of a     *)
(* block precede its mutation lines.                                       *)
C3_TagAfterMutation ==
    /\ [][C3_TagAfterMutationStep]_vars
    /\ []((pc = "done" /\ result.kind = "Ok") => TagsBeforeMutations(Lines(data)))

\* a tag line after an accepted mutation line was refused
C3_Witness ==
    /\ pc = "done"
    /\ result = ErrResult(<<"InvalidTag", "TagAfterMutation">>, TagLine)
    /\ Len(Lines(data)) - Len(lines) = 3

----------------------------------------------------------------------------
\* the line the parser takes next, trimmed
NextLine == Trim(Head(lines))

\* the body loop is about to take a line that is neither blank nor a comment
BodyLineCase ==
    pc = "body" /\ lines # <<>> /\ ~IsBlank(Head(lines)) /\ ~IsComment(Head(lines))

FirstIndex(l, c) == CHOOSE i \in 1..Len(l) : l[i] = c /\ \A j \in 1..(i - 1) : l[j] # c

Before(l, c) == Trim(SubSeq(l, 1, FirstIndex(l, c) - 1))

After(l, c) == Trim(SubSeq(l, FirstIndex(l, c) + 1, Len(l)))

\* the step treats the line as a tag: appended, or refused after a mutation
TakenAsTag(l) ==
    \/ /\ txn.mutations = <<>>
       /\ pc' = "body"
       /\ txn' = [txn EXCEPT !.tags = Append(@, [label |-> Before(l, ":"),
                                                  value |-> After(l, ":")])]
    \/ /\ txn.mutations # <<>>
       /\ result' = ErrResult(<<"InvalidTag", "TagAfterMutation">>, l)

\* the step hands the line to Mutation::parse_from_str
TakenAsMutation(l) ==
    LET m == MutationParse(l) IN
    \/ /\ m.kind = "Ok"
       /\ pc' = "body"
       /\ txn' = [txn EXCEPT !.mutations = Append(@, m.mutation)]
    \/ /\ m.kind = "Err"
       /\ result' = ErrResult(m.details, m.token)
    \/ /\ m.kind = "Panic"
       /\ result' = PanicResult

C4_OriginalStep ==
    BodyLineCase => IF TagShaped(NextLine) THEN TakenAsTag(NextLine)
                    ELSE TakenAsMutation(NextLine)

\* C4 as stated: a line is a tag exactly when it is LABEL: VALUE with a label
\* of ASCII alphanumerics and '-'; every other line is parsed as a mutation.
C4_Original == [][C4_OriginalStep]_vars

C4_AmendedStep ==
    BodyLineCase =>
        IF ~HasColon(NextLine) THEN TakenAsMutation(NextLine)
        ELSE IF TagShaped(NextLine) THEN TakenAsTag(NextLine)
        ELSE \/ /\ txn.mutations = <<>>
                /\ result' = ErrResult(<<"InvalidTag", "InvalidLabel">>, Before(NextLine, ":"))
             \/ /\ txn.mutations # <<>>
                /\ result' = ErrResult(<<"InvalidTag", "TagAfterMutation">>, NextLine)

(* C4, amended: a non-blank, non-comment line of a block is taken as a tag *)
(* exactly when it contains ':'.  With a label of ASCII alphanumerics and  *)
(* '-' it is a tag; with any other label (a mutation whose account has a   *)
(* ':') the parse fails with InvalidTag(InvalidLabel) and the label as     *)
(* token, or with TagAfterMutation once a mutation was accepted.  Only a   *)
(* line without ':' is parsed as a mutation.                               *)
C4_TagExactlyWhenColon == [][C4_AmendedStep]_vars

\* the mutation line `+2 a:b` was refused as a tag with the label `+2 a`
C4_Witness ==
    /\ pc = "done"
    /\ result = ErrResult(<<"InvalidTag", "InvalidLabel">>, <<"+", "2", " ", "a">>)

----------------------------------------------------------------------------
\* the header loop is about to take a line that is neither blank nor a comment
HeaderCase ==
    pc = "header" /\ lines # <<>> /\ ~IsBlank(Head(lines)) /\ ~IsComment(Head(lines))

\* the date texts of the ledger texts that denote a date of the calendar
ValidDateTexts ==
    {<<"1", "-", "2", "-", "3">>}
    \cup ({y \o <<"-">> \o m \o <<"-">> \o d :
              y \in {<<"4">>, <<"1">>}, m \in {<<"0", "2">>, <<"1", "2">>},
              d \in {<<"2", "8">>, <<"2", "9">>, <<"3", "0">>}}
          \ {<<"4", "-", "0", "2", "-", "3", "0">>,
             <<"1", "-", "0", "2", "-", "2", "9">>,
             <<"1", "-", "0", "2", "-", "3", "0">>})

C5_Step ==
    HeaderCase =>
        /\ (~HasColon(NextLine) \/ After(NextLine, ":") = <<>>)
              => /\ pc' = "done"
                 /\ result' = ErrResult(<<"InvalidTransactionHeader", "MissingDescription">>,
                                        NextLine)
        /\ (HasColon(NextLine) /\ After(NextLine, ":") # <<>>
                /\ Before(NextLine, ":") \notin ValidDateTexts)
              => /\ pc' = "done"
                 /\ result' = ErrResult(<<"InvalidTransactionHeader", "InvalidDate">>,
                                        Before(NextLine, ":"))

(* C5: a header line without ':' or with an empty trimmed description      *)
(* fails with InvalidTransactionHeader(MissingDescription) and the         *)
(* (trimmed) header line as token; a header with a description whose date  *)
(* part is no valid date fails with InvalidTransactionHeader(InvalidDate)  *)
(* and the trimmed text before the first ':' as token.                     *)
C5_HeaderErrors == [][C5_Step]_vars

\* 29 February of the year 1 was refused, with the date text alone as token
C5_Witness ==
    /\ pc = "done"
    /\ result = ErrResult(<<"InvalidTransactionHeader", "InvalidDate">>,
                          <<"1", "-", "0", "2", "-", "2", "9">>)
    /\ Len(data) > 7

----------------------------------------------------------------------------
\* the body loop is about to hand a line to Mutation::parse_from_str
MutationCase == BodyLineCase /\ ~HasColon(NextLine)

HasSpace(l) == \E i \in 1..Len(l) : l[i] = " "

C6_Step ==
    MutationCase =>
        /\ ~HasSpace(NextLine)
              => /\ result'.kind = "Err"
                 /\ result'.details = <<"InvalidMutation", "MissingAccount">>
        /\ (HasSpace(NextLine) /\ Before(NextLine, " ")[1] \notin {"+", "-"})
              => result' = ErrResult(<<"InvalidMutation", "MissingSign">>, Before(NextLine, " "))
        /\ (HasSpace(NextLine) /\ Before(NextLine, " ")[1] \in {"+", "-"} /\ pc' = "body")
              => /\ Len(txn'.mutations) = Len(txn.mutations) + 1
                 /\ txn'.mutations[Len(txn'.mutations)].account = After(NextLine, " ")

(* C6: a mutation line without a space fails with                          *)
(* InvalidMutation(MissingAccount); one with a space whose amount token    *)
(* does not start with '+' or '-' fails with InvalidMutation(MissingSign)  *)
(* and the amount token as token, whatever its first character is;         *)
(* otherwise the account is the trimmed text after the first space.        *)
C6_MutationErrors == [][C6_Step]_vars

----------------------------------------------------------------------------
AllDigits(t) == t # <<>> /\ \A i \in 1..Len(t) : t[i] \in Digit

\* DIGITS, or DIGITS.DD with exactly two fractional digits
IsAmountText(t) ==
    \/ AllDigits(t)
    \/ /\ Len(t) >= 4
       /\ t[Len(t) - 2] = "."
       /\ AllDigits(SubSeq(t, 1, Len(t) - 3))
       /\ AllDigits(SubSeq(t, Len(t) - 1, Len(t)))

\* 100 * DIGITS + DD, DIGITS alone meaning .00
AmountValue(t) ==
    IF AllDigits(t) THEN 100 * DigitsValue(t)
    ELSE 100 * DigitsValue(SubSeq(t, 1, Len(t) - 3)) + DigitsValue(SubSeq(t, Len(t) - 1, Len(t)))

C7_Step ==
    (MutationCase /\ HasSpace(NextLine) /\ Before(NextLine, " ")[1] \in {"+", "-"})
        => LET token == Before(NextLine, " ")
               sign  == IF token[1] = "-" THEN -1 ELSE 1
           IN IF IsAmountText(Tail(token))
              THEN /\ pc' = "body"
                   /\ txn' = [txn EXCEPT !.mutations =
                                 Append(@, [amount  |-> sign * AmountValue(Tail(token)),
                                            account |-> After(NextLine, " ")])]
              ELSE result' = ErrResult(<<"InvalidMutation", "InvalidAmount">>, token)

(* C7: the text after the sign of an amount is accepted exactly when it is *)
(* DIGITS or DIGITS.DD, with the value sign * (100 * DIGITS + DD); every   *)
(* other text (a second sign in the whole or decimal part, one or three    *)
(* fractional digits, an empty or non-numeric part) fails with             *)
(* InvalidMutation(InvalidAmount) and the amount token as token.           *)
C7_AmountGrammar == [][C7_Step]_vars

----------------------------------------------------------------------------
InsertAt(ls, i, l) == SubSeq(ls, 1, i) \o <<l>> \o SubSeq(ls, i + 1, Len(ls))

RemoveAt(ls, i) == SubSeq(ls, 1, i - 1) \o SubSeq(ls, i + 1, Len(ls))

CommentLines == {Comment, <<" ", "#">>, <<"#", "k", ":", " ", "v">>}

(* C8: comment lines are skipped between and within blocks: a comment line *)
(* inserted at any line position of the text, or one removed from it,      *)
(* leaves the result of parse_from_str unchanged.                          *)
C8_CommentsIgnored ==
    pc = "done"
        => LET all == Lines(data) IN
           /\ \A i \in 0..Len(all) : \A c \in CommentLines :
                 ParseLines(InsertAt(all, i, c)) = result
           /\ \A i \in 1..Len(all) :
                 IsComment(all[i]) => ParseLines(RemoveAt(all, i)) = result

\* a comment between the header and a mutation of an accepted block
C8_Witness ==
    /\ pc = "done"
    /\ Lines(data) = <<Header1, Comment, Plus1a>>
    /\ result.kind = "Ok"
    /\ Len(result.value[1].mutations) = 1

----------------------------------------------------------------------------
BlankLines == {<<>>, <<" ">>}

\* C9 as stated: a blank line inserted at any line position, also between two
\* lines of one block, leaves the result of parse_from_str unchanged.
C9_Original ==
    pc = "done"
        => \A i \in 0..Len(Lines(data)) : \A b \in BlankLines :
              ParseLines(InsertAt(Lines(data), i, b)) = result

\* before the first line, after the last line, or next to a blank line
BetweenBlocks(ls, i) ==
    \/ i = 0
    \/ i = Len(ls)
    \/ IsBlank(ls[i])
    \/ IsBlank(ls[i + 1])

(* C9, amended: blank lines are ignored between blocks: a blank line        *)
(* inserted at the start of the text, at its end, or next to an existing   *)
(* blank line leaves the result of parse_from_str unchanged (a blank line  *)
(* between two lines of one block ends the block there).                   *)
C9_BlankLinesBetweenBlocks ==
    pc = "done"
        => \A i \in 0..Len(Lines(data)) : \A b \in BlankLines :
              BetweenBlocks(Lines(data), i)
                  => ParseLines(InsertAt(Lines(data), i, b)) = result

\* two accepted blocks with a blank line between them
C9_Witness ==
    /\ pc = "done"
    /\ Lines(data) = <<Header1, Plus1a, Blank, Header1>>
    /\ Len(result.value) = 2

----------------------------------------------------------------------------
\* the amounts of the transaction do not sum to zero
Unbalanced(t) == MathSum(t.mutations) # Wide(0)

(* C10: find_unbalanced returns, in input order, exactly the transactions  *)
(* whose amounts do not sum to zero, each with that sum; the transactions  *)
(* that sum to zero are left out; the parser accepts unbalanced blocks.    *)
C10_FindUnbalanced ==
    pc = "checked"
        => LET sel == SelectSeq(result.value, Unbalanced) IN
           /\ result.kind = "Ok"
           /\ Len(unbalanced) = Len(sel)
           /\ \A i \in 1..Len(sel) :
                 /\ unbalanced[i].transaction = sel[i]
                 /\ Wide(unbalanced[i].balance) = MathSum(sel[i].mutations)

----------------------------------------------------------------------------
(* grootboek/types.rs: Account, a path with '/' between its segments       *)

\* str::match_indices('/'): the positions of the '/' characters, ascending
RECURSIVE MatchIndices(_, _)
MatchIndices(raw, from) ==
    IF from > Len(raw) THEN <<>>
    ELSE IF raw[from] = "/" THEN <<from>> \o MatchIndices(raw, from + 1)
    ELSE MatchIndices(raw, from + 1)

\* str::rfind('/'): the position of the last '/', 0 for None
RFind(raw) ==
    LET found == MatchIndices(raw, 1) IN
    IF found = <<>> THEN 0 ELSE found[Len(found)]

\* str::starts_with(&str)
StartsWithStr(raw, prefix) ==
    Len(prefix) <= Len(raw) /\ SubSeq(raw, 1, Len(prefix)) = prefix

\* str::as_bytes: the UTF-8 bytes, "EUR" being the three bytes E2 82 AC
RECURSIVE AsBytes(_)
AsBytes(s) ==
    IF s = <<>> THEN <<>>
    ELSE (IF Head(s) = "EUR" THEN <<"E2", "82", "AC">> ELSE <<Head(s)>>) \o AsBytes(Tail(s))

\* `prefix = &prefix[..prefix.len() - 1]` when prefix.ends_with('/')
StripSlash(prefix) ==
    IF prefix # <<>> /\ prefix[Len(prefix)] = "/"
    THEN SubSeq(prefix, 1, Len(prefix) - 1) ELSE prefix

\* the index of self.raw.as_bytes()[prefix.len()] is evaluated and out of range
matches_prefixPanics(raw, prefix) ==
    /\ raw # StripSlash(prefix)
    /\ StartsWithStr(raw, StripSlash(prefix))
    /\ ByteLen(StripSlash(prefix)) >= Len(AsBytes(raw))

\* a prefix test that does not look for the '/' after the prefix
matches_prefixNoSeparator(raw, prefix) ==
    IF raw = StripSlash(prefix) THEN TRUE ELSE StartsWithStr(raw, StripSlash(prefix))

\* Account::matches_prefix
matches_prefix(raw, prefix) ==
    IF raw = StripSlash(prefix) THEN TRUE
    ELSE /\ StartsWithStr(raw, StripSlash(prefix))
         /\ AsBytes(raw)[ByteLen(StripSlash(prefix)) + 1] = "/"

\* Account::name
name(raw) ==
    IF RFind(raw) # 0 THEN SubSeq(raw, RFind(raw) + 1, Len(raw)) ELSE raw

\* a walk that leaves the account itself out
walk_nodesParentsOnly(raw) ==
    LET found == MatchIndices(raw, 1) IN
    [k \in 1..Len(found) |-> SubSeq(raw, 1, found[k] - 1)]

\* Account::walk_nodes, the whole sequence the iterator yields
walk_nodes(raw) ==
    LET found == MatchIndices(raw, 1) IN
    [k \in 1..Len(found) |-> SubSeq(raw, 1, found[k] - 1)] \o <<raw>>

None == [some |-> FALSE, value |-> <<>>]

Some(x) == [some |-> TRUE, value |-> x]

\* Account::parent
parent(raw) ==
    IF RFind(raw) = 0 THEN None ELSE Some(SubSeq(raw, 1, RFind(raw) - 1))

\* Account::parents: what AccountParents::next yields until it yields None,
\* the parent first and the top-level account last
RECURSIVE parents(_)
parents(raw) ==
    IF parent(raw).some
    THEN <<parent(raw).value>> \o parents(parent(raw).value)
    ELSE <<>>

\* Account::common_parent: zip, take_while(a == b), last
common_parent(raw, other) ==
    LET a == parents(raw)
        b == parents(other)
        n == IF Len(a) < Len(b) THEN Len(a) ELSE Len(b)
        taken == {k \in 0..n : \A j \in 1..k : a[j] = b[j]}
        last == CHOOSE k \in taken : \A j \in taken : j <= k
    IN IF last = 0 THEN None ELSE Some(a[last])

----------------------------------------------------------------------------
(* tools/src/bin/grootboek.rs: the account tree of compute_totals          *)

\* a + b leaves the i32 range
I32AddOverflows(a, b) ==
    \/ b > 0 /\ a > I32Max - b
    \/ b < 0 /\ a < I32Min - b

\* children.iter().position(|x| x.account == account), 0 for None
Position(children, node_account) ==
    IF \E i \in 1..Len(children) : children[i].account = node_account
    THEN CHOOSE i \in 1..Len(children) :
            /\ children[i].account = node_account
            /\ \A j \in 1..(i - 1) : children[j].account # node_account
    ELSE 0

\* a loop that updates only the node the walk ends at
RECURSIVE DescendLeafOnly(_, _, _)
DescendLeafOnly(current, walk, amount) ==
    IF walk = <<>> THEN current
    ELSE LET x        == Position(current.children, Head(walk))
             children == IF x # 0 THEN current.children
                         ELSE Append(current.children, Node_new(Head(walk), 0))
             i        == IF x # 0 THEN x ELSE Len(children)
             updated  == IF Len(walk) = 1
                         THEN [children[i] EXCEPT !.data = I32Add(@, amount)]
                         ELSE children[i]
         IN [current EXCEPT
                !.children = [children EXCEPT
                                 ![i] = DescendLeafOnly(updated, Tail(walk), amount)]]

\* a loop that, for an account it does not find, starts the list of children anew
RECURSIVE DescendNewChildren(_, _, _)
DescendNewChildren(current, walk, amount) ==
    IF walk = <<>> THEN current
    ELSE LET x        == Position(current.children, Head(walk))
             children == IF x # 0 THEN current.children
                         ELSE <<Node_new(Head(walk), 0)>>
             i        == IF x # 0 THEN x ELSE Len(children)
             updated  == [children[i] EXCEPT !.data = I32Add(@, amount)]
         IN [current EXCEPT
                !.children = [children EXCEPT
                                 ![i] = DescendNewChildren(updated, Tail(walk), amount)]]

\* the loop of Tree::insert from the node `current` over the accounts left in
\* `walk`, with the update and the initial data that compute_totals passes:
\* |x| *x += mutation.amount and Cents(0)
RECURSIVE Descend(_, _, _)
Descend(current, walk, amount) ==
    IF walk = <<>> THEN current
    ELSE LET x        == Position(current.children, Head(walk))
             children == IF x # 0 THEN current.children
                         ELSE Append(current.children, Node_new(Head(walk), 0))
             i        == IF x # 0 THEN x ELSE Len(children)
             updated  == [children[i] EXCEPT !.data = I32Add(@, amount)]
         IN [current EXCEPT
                !.children = [children EXCEPT ![i] = Descend(updated, Tail(walk), amount)]]

\* Tree::insert as compute_totals calls it
insert(root, node_account, amount) ==
    Descend([root EXCEPT !.data = I32Add(@, amount)], walk_nodes(node_account), amount)

\* some `*x += mutation.amount` of the insert overflows
RECURSIVE DescendOverflows(_, _, _)
DescendOverflows(current, walk, amount) ==
    IF walk = <<>> THEN FALSE
    ELSE LET x == Position(current.children, Head(walk)) IN
         IF x = 0 THEN FALSE
         ELSE \/ I32AddOverflows(current.children[x].data, amount)
              \/ DescendOverflows(current.children[x], Tail(walk), amount)

insertOverflows(root, node_account, amount) ==
    \/ I32AddOverflows(root.data, amount)
    \/ DescendOverflows(root, walk_nodes(node_account), amount)

----------------------------------------------------------------------------
(* The state machine of compute_totals: the transactions come from an      *)
(* iterator, one at a time, and every mutation of each is inserted         *)

MaxTransactions == 2
MaxInserts == 3

Acc_a   == <<"a">>
Acc_ab  == <<"a", "/", "b">>
Acc_ac  == <<"a", "/", "c">>
Acc_abc == <<"a", "/", "b", "/", "c">>
Acc_bSlash == <<"b", "/">>
Acc_slashB == <<"/", "b">>

\* the mutations a transaction is made of: nested and sibling accounts, an
\* account with a trailing and one with a leading '/', and an amount at the
\* end of the i32 range
TreeMutations ==
    { [amount |-> 100, account |-> Acc_ab],
      [amount |-> 50, account |-> Acc_ac],
      [amount |-> -150, account |-> Acc_a],
      [amount |-> I32Max, account |-> Acc_abc],
      [amount |-> -100, account |-> Acc_bSlash],
      [amount |-> 50, account |-> Acc_slashB] }

\* the mutations compute_totals has inserted so far, in order
RECURSIVE Flatten(_)
Flatten(ts) == IF ts = <<>> THEN <<>> ELSE Head(ts) \o Flatten(Tail(ts))

Inserted ==
    IF seen = <<>> THEN <<>>
    ELSE Flatten(SubSeq(seen, 1, Len(seen) - 1)) \o SubSeq(seen[Len(seen)], 1, cursor)

BetweenTransactions == IF seen = <<>> THEN TRUE ELSE cursor = Len(seen[Len(seen)])

TreeInit ==
    /\ overflow_checks \in BOOLEAN
    /\ seen = <<>>
    /\ cursor = 0
    /\ totals = Tree_new(0)
    /\ tpc = "loop"
    /\ LedgerIdle
    /\ AccountIdle
    /\ WriteIdle
    /\ CalendarIdle
    /\ PureIdle

\* `for transaction in transactions`: the iterator yields one more transaction
NextTransaction ==
    /\ tpc = "loop"
    /\ BetweenTransactions
    /\ Len(seen) < MaxTransactions
    /\ \E t \in SeqsUpTo(TreeMutations, MaxInserts - Len(Inserted)) :
          seen' = Append(seen, t)
    /\ cursor' = 0
    /\ UNCHANGED <<totals, tpc, treeOthers>>

\* `root.insert(mutation.account, |x| *x += mutation.amount, Cents(0))`
Insert ==
    /\ tpc = "loop"
    /\ ~BetweenTransactions
    /\ LET mutation == seen[Len(seen)][cursor + 1] IN
          /\ ~(overflow_checks /\ insertOverflows(totals, mutation.account, mutation.amount))
          /\ totals' = insert(totals, mutation.account, mutation.amount)
    /\ cursor' = cursor + 1
    /\ UNCHANGED <<seen, tpc, treeOthers>>

\* the same call in a build with overflow checks, when one of its additions
\* overflows: the thread panics and the tree is dropped
InsertPanic ==
    /\ tpc = "loop"
    /\ ~BetweenTransactions
    /\ LET mutation == seen[Len(seen)][cursor + 1] IN
          overflow_checks /\ insertOverflows(totals, mutation.account, mutation.amount)
    /\ tpc' = "panic"
    /\ totals' = Tree_new(0)
    /\ UNCHANGED <<seen, cursor, treeOthers>>

\* the iterator is exhausted: compute_totals returns `root`
ReturnTotals ==
    /\ tpc = "loop"
    /\ BetweenTransactions
    /\ tpc' = "returned"
    /\ UNCHANGED <<seen, cursor, totals, treeOthers>>

TreeNext ==
    \/ NextTransaction
    \/ Insert
    \/ InsertPanic
    \/ ReturnTotals

TreeSpec == TreeInit /\ [][TreeNext]_vars

----------------------------------------------------------------------------
(* What the tree is expected to hold, computed from the list of inserted   *)
(* mutations alone                                                         *)

\* the sum of the amounts of ms in Cents arithmetic: the mathematical sum as long
\* as it stays in the i32 range, and that sum modulo 2^32 once it leaves it
RECURSIVE CentsSum(_)
CentsSum(ms) ==
    IF ms = <<>> THEN 0
    ELSE I32Add(CentsSum(SubSeq(ms, 1, Len(ms) - 1)), ms[Len(ms)].amount)

\* the account acc is the path P or lies below it
AtOrBelow(acc, P) ==
    \/ acc = P
    \/ /\ Len(acc) > Len(P)
       /\ \A i \in 1..Len(P) : acc[i] = P[i]
       /\ acc[Len(P) + 1] = "/"

\* the paths that are a node of the account acc: the account itself and what
\* is left of each of its '/' characters
NodePaths(acc) ==
    {acc} \cup {SubSeq(acc, 1, i - 1) : i \in {j \in 1..Len(acc) : acc[j] = "/"}}

\* a node and all nodes below it
RECURSIVE Subtree(_)
Subtree(node) ==
    {node} \cup UNION {Subtree(node.children[i]) : i \in 1..Len(node.children)}

\* the nodes of the tree other than its root
BelowRoot(root) == UNION {Subtree(root.children[i]) : i \in 1..Len(root.children)}

\* the sum of the balances of the children of a node, in Cents arithmetic
ChildrenSum(node) ==
    CentsSum([i \in 1..Len(node.children) |-> [amount |-> node.children[i].data]])

TreeAlive == tpc \in {"loop", "returned"}

----------------------------------------------------------------------------
\* the inserted mutations whose account is P or lies below P
InsertedAtOrBelow(P) == SelectSeq(Inserted, LAMBDA m : AtOrBelow(m.account, P))

\* in every build the root holds the sum in Cents arithmetic
RootIsCentsSum == TreeAlive => totals.data = CentsSum(Inserted)

\* in every build there is a node for every path of an inserted account, and it
\* holds the sum in Cents arithmetic of the mutations at or below its path
NodeIsCentsSumBelow ==
    TreeAlive =>
        \A k \in 1..Len(Inserted) : \A P \in NodePaths(Inserted[k].account) :
            /\ \E node \in BelowRoot(totals) : node.account = P
            /\ \A node \in BelowRoot(totals) :
                  node.account = P => node.data = CentsSum(InsertedAtOrBelow(P))

----------------------------------------------------------------------------
(* C11: at every point of compute_totals, after each single Tree::insert   *)
(* as well as at the return, the balance of the root node is the sum of    *)
(* the amounts of all mutations inserted so far.                           *)
C11_RootIsSum ==
    TreeAlive => Wide(totals.data) = MathSum(Inserted)

----------------------------------------------------------------------------
(* C12: for every path P that is a node of the account of an inserted      *)
(* mutation there is a tree node for P, and the balance of every such node *)
(* is the sum of the amounts of the inserted mutations whose account is P  *)
(* or lies below P.                                                        *)
C12_NodeIsSumBelow ==
    TreeAlive =>
        \A k \in 1..Len(Inserted) : \A P \in NodePaths(Inserted[k].account) :
            /\ \E node \in BelowRoot(totals) : node.account = P
            /\ \A node \in BelowRoot(totals) :
                  node.account = P => Wide(node.data) = MathSum(InsertedAtOrBelow(P))

----------------------------------------------------------------------------
\* the balances a Node keeps: its one field `data`
NodeBalances(node) == {node.data}

\* the sum of the inserted mutations on exactly the account P
OwnSum(P) == CentsSum(SelectSeq(Inserted, LAMBDA m : m.account = P))

----------------------------------------------------------------------------
(* The methods of Account, each called on any account with any argument    *)

MaxAccountLen == 3

Acc_abd == <<"a", "/", "b", "/", "d">>
Acc_abSlash == <<"a", "/", "b", "/">>
Acc_a_bc == <<"a", "/", "b", "c">>
Acc_aEuro == <<"a", "EUR">>

\* every string of 'a', 'b' and '/' up to MaxAccountLen characters, the empty
\* one included, and some longer accounts
AccountTexts ==
    SeqsUpTo({"a", "b", "/"}, MaxAccountLen)
        \cup {Acc_abc, Acc_abd, Acc_abSlash, Acc_a_bc, Acc_aEuro}

Call(op, value) == [op |-> op, value |-> value]

AccountInit ==
    /\ self \in AccountTexts
    /\ argument \in AccountTexts
    /\ returned = NoCall
    /\ overflow_checks = FALSE
    /\ LedgerIdle
    /\ TreeIdle
    /\ WriteIdle
    /\ CalendarIdle
    /\ PureIdle

MatchesPrefix ==
    /\ returned' = IF matches_prefixPanics(self, argument)
                   THEN Call("matches_prefix panicked", <<>>)
                   ELSE Call("matches_prefix", matches_prefix(self, argument))
    /\ UNCHANGED <<self, argument, accountOthers>>

Name ==
    /\ returned' = Call("name", name(self))
    /\ UNCHANGED <<self, argument, accountOthers>>

WalkNodes ==
    /\ returned' = Call("walk_nodes", walk_nodes(self))
    /\ UNCHANGED <<self, argument, accountOthers>>

Parent ==
    /\ returned' = Call("parent", parent(self))
    /\ UNCHANGED <<self, argument, accountOthers>>

CommonParent ==
    /\ returned' = Call("common_parent", common_parent(self, argument))
    /\ UNCHANGED <<self, argument, accountOthers>>

AccountNext ==
    \/ MatchesPrefix
    \/ Name
    \/ WalkNodes
    \/ Parent
    \/ CommonParent

AccountSpec == AccountInit /\ [][AccountNext]_vars

----------------------------------------------------------------------------
(* C14: matches_prefix(prefix) returns true exactly when, with one         *)
(* trailing '/' taken off the prefix, the account is the prefix or is the  *)
(* prefix, a '/' and some rest; it returns a boolean for every pair of     *)
(* strings and never fails.                                                *)
C14_MatchesPrefix ==
    LET stripped == IF argument # <<>> /\ argument[Len(argument)] = "/"
                    THEN [i \in 1..(Len(argument) - 1) |-> argument[i]]
                    ELSE argument
    IN /\ returned.op # "matches_prefix panicked"
       /\ returned.op = "matches_prefix" =>
             /\ returned.value \in BOOLEAN
             /\ returned.value <=>
                   \/ self = stripped
                   \/ \E k \in 1..Len(self) :
                         self = stripped \o <<"/">> \o SubSeq(self, k + 1, Len(self))

\* a/b/c matches a/b
C14_Witness ==
    /\ returned.op = "matches_prefix"
    /\ returned.value
    /\ self = Acc_abc
    /\ argument = <<"a", "/", "b">>

----------------------------------------------------------------------------
\* the positions of the '/' characters of an account
Slashes(acc) == {i \in 1..Len(acc) : acc[i] = "/"}

\* the position of the last '/' of an account that has one
LastSlash(acc) == CHOOSE i \in Slashes(acc) : \A j \in Slashes(acc) : j <= i

C15_Results ==
    /\ returned.op = "walk_nodes" =>
          LET walk == returned.value IN
          /\ Len(walk) = Cardinality(Slashes(self)) + 1
          /\ parent(walk[1]) = None
          /\ \A i \in 2..Len(walk) : parent(walk[i]) = Some(walk[i - 1])
          /\ walk[Len(walk)] = self
    /\ returned.op = "parent" =>
          returned.value = IF Slashes(self) = {} THEN None
                           ELSE Some([i \in 1..(LastSlash(self) - 1) |-> self[i]])
    /\ returned.op = "name" =>
          returned.value = IF Slashes(self) = {} THEN self
                           ELSE [i \in 1..(Len(self) - LastSlash(self)) |->
                                    self[LastSlash(self) + i]]

(* C15: walk_nodes() on an account with k '/' characters yields k + 1      *)
(* accounts: the first has no parent, the parent of each later one is the  *)
(* one before it, and the last is the account itself; a second call yields *)
(* the same sequence; parent() is the text before the last '/', None when  *)
(* there is no '/', and name() is the text after it, the whole text when   *)
(* there is no '/'.                                                        *)
C15_WalkNodes ==
    /\ []C15_Results
    /\ [][(returned.op = "walk_nodes" /\ returned'.op = "walk_nodes")
              => returned' = returned]_vars

\* a/b/c yields a, a/b, a/b/c
C15_Witness ==
    /\ returned.op = "walk_nodes"
    /\ self = Acc_abc
    /\ returned.value = <<Acc_a, Acc_ab, Acc_abc>>

----------------------------------------------------------------------------
\* the accounts above an account: what is left of each of its '/' characters
Ancestors(acc) == {SubSeq(acc, 1, i - 1) : i \in Slashes(acc)}

CommonAncestors == Ancestors(self) \cap Ancestors(argument)

(* C16: common_parent(other) returns the deepest account that is an        *)
(* ancestor of both accounts, and None only when they have no common       *)
(* ancestor.                                                               *)
C16_CommonParent ==
    returned.op = "common_parent" =>
        returned.value =
            IF CommonAncestors = {} THEN None
            ELSE Some(CHOOSE c \in CommonAncestors :
                         \A d \in CommonAncestors : Len(d) <= Len(c))

----------------------------------------------------------------------------
(* Display of the ledger types and tools/src/grootboek.rs: write_full      *)

DigitChar == <<"0", "1", "2", "3", "4", "5", "6", "7", "8", "9">>

\* the decimal digits of the magnitude of n
RECURSIVE DecimalDigits(_)
DecimalDigits(n) ==
    LET r == TruncRem(n, 10)
        d == DigitChar[(IF r < 0 THEN -r ELSE r) + 1]
    IN IF TruncDiv(n, 10) = 0 THEN <<d>> ELSE DecimalDigits(TruncDiv(n, 10)) \o <<d>>

\* std::fmt of an integer: `{}` is FormatInt(n, FALSE, 0), `{:+}` is
\* FormatInt(n, TRUE, 0), `{:02}` is FormatInt(n, FALSE, 2); the zeros of a
\* zero-padded width come after the sign and the sign counts for the width
FormatInt(n, plus, width) ==
    LET sign   == IF n < 0 THEN <<"-">> ELSE IF plus THEN <<"+">> ELSE <<>>
        digits == DecimalDigits(n)
        pad    == width - Len(sign) - Len(digits)
    IN sign \o [i \in 1..pad |-> "0"] \o digits

\* Display for Cents: whole = amount / 100, cents = (amount % 100).abs(),
\* write!(f, "{:+}.{:02}", whole, cents)
CentsDisplay(cents_amount) ==
    LET whole == TruncDiv(cents_amount, 100)
        rem   == TruncRem(cents_amount, 100)
        cents == IF rem < 0 THEN -rem ELSE rem
    IN FormatInt(whole, TRUE, 0) \o <<".">> \o FormatInt(cents, FALSE, 2)

\* Display for the ledger Date: write!(f, "{:04}-{:02}-{:02}", year, month, day)
LedgerDateDisplay(date) ==
    FormatInt(date.year, FALSE, 4) \o <<"-">> \o FormatInt(date.month, FALSE, 2)
        \o <<"-">> \o FormatInt(date.day, FALSE, 2)

RECURSIVE Concat(_)
Concat(parts) == IF parts = <<>> THEN <<>> ELSE Head(parts) \o Concat(Tail(parts))

\* write_full: the header line, a line for each tag, a line for each mutation
write_full(transaction) ==
    LedgerDateDisplay(transaction.date) \o <<":", " ">> \o transaction.description \o <<"\n">>
        \o Concat([i \in 1..Len(transaction.tags) |->
                      transaction.tags[i].label \o <<":", " ">>
                          \o transaction.tags[i].value \o <<"\n">>])
        \o Concat([i \in 1..Len(transaction.mutations) |->
                      CentsDisplay(transaction.mutations[i].amount) \o <<" ">>
                          \o transaction.mutations[i].account \o <<"\n">>])

----------------------------------------------------------------------------
(* A transaction is written with write_full and the text is parsed again   *)

MaxCents == 120

\* every amount up to MaxCents cents either way, and the amounts at the ends
\* of the i32 range
CentsValues == (-MaxCents..MaxCents) \cup {-1000, 12345, I32Max, -I32Max, I32Min}

WrittenTransactions ==
    {[date        |-> [year |-> 2020, month |-> 1, day |-> 2],
      description |-> <<"d">>,
      tags        |-> tags,
      mutations   |-> <<[amount |-> c, account |-> Acc_ab]>>] :
        tags \in {<<>>, <<[label |-> <<"k">>, value |-> <<"v">>]>>},
        c \in CentsValues}

WriteInit ==
    /\ wtxn \in WrittenTransactions
    /\ out = <<>>
    /\ reread = Running
    /\ wpc = "start"
    /\ overflow_checks = FALSE
    /\ LedgerIdle
    /\ TreeIdle
    /\ AccountIdle
    /\ CalendarIdle
    /\ PureIdle

WriteFull ==
    /\ wpc = "start"
    /\ out' = write_full(wtxn)
    /\ wpc' = "written"
    /\ UNCHANGED <<wtxn, reread, writeOthers>>

ReadBack ==
    /\ wpc = "written"
    /\ reread' = ParseFromStr(out)
    /\ wpc' = "reread"
    /\ UNCHANGED <<wtxn, out, writeOthers>>

WriteNext ==
    \/ WriteFull
    \/ ReadBack

WriteSpec == WriteInit /\ [][WriteNext]_vars

----------------------------------------------------------------------------
\* the line that write_full wrote for the mutation: the last line of the text
WrittenMutationLine == Lines(out)[Len(Lines(out))]

(* C17: the line written for a mutation starts with the sign of its        *)
(* amount, '-' for a negative amount and '+' otherwise, and the written    *)
(* transaction parses back to one transaction with the same Cents amount   *)
(* on the same account.                                                    *)
C17_DisplayRoundTrip ==
    /\ wpc \in {"written", "reread"} =>
          WrittenMutationLine[1] = IF wtxn.mutations[1].amount < 0 THEN "-" ELSE "+"
    /\ wpc = "reread" =>
          /\ reread.kind = "Ok"
          /\ Len(reread.value) = 1
          /\ reread.value[1].mutations = wtxn.mutations

----------------------------------------------------------------------------
(* date.rs: the gregorian calendar.  A Year is an i16, a Month one of the  *)
(* numbers 1 to 12 (the discriminants of the enum), a day a u8.            *)

I16Max == 32767
I16Min == -32768
U8Max == 255

\* a leap rule that takes every fourth year
has_leap_dayEveryFourth(year) == TruncRem(year, 4) = 0

\* a leap rule without the exception for the years divisible by 400
has_leap_dayNoFourHundred(year) == TruncRem(year, 4) = 0 /\ TruncRem(year, 100) # 0

\* Year::has_leap_day
has_leap_day(year) ==
    TruncRem(year, 4) = 0 /\ (TruncRem(year, 100) # 0 \/ TruncRem(year, 400) = 0)

\* Year::next and Year::prev: `self.year + 1` and `self.year - 1` in i16, with
\* the wrapped value and whether the operation overflowed
Year_next(year) ==
    IF year = I16Max THEN [overflow |-> TRUE, year |-> I16Min]
    ELSE [overflow |-> FALSE, year |-> year + 1]

Year_prev(year) ==
    IF year = I16Min THEN [overflow |-> TRUE, year |-> I16Max]
    ELSE [overflow |-> FALSE, year |-> year - 1]

\* Month::new
Month_new(number) ==
    IF number \in 1..12 THEN [ok |-> TRUE, month |-> number]
    ELSE [ok |-> FALSE, month |-> 0]

\* Month::wrapping_next and Month::wrapping_prev
wrapping_next(month) == IF month = 12 THEN 1 ELSE month + 1

wrapping_prev(month) == IF month = 1 THEN 12 ELSE month - 1

\* YearMonth::total_days
total_days(year, month) ==
    CASE month = 2 -> IF has_leap_day(year) THEN 29 ELSE 28
      [] month \in {4, 6, 9, 11} -> 30
      [] OTHER -> 31

YearMonth(year, month) == [year |-> year, month |-> month]

\* YearMonth::next and YearMonth::prev
YearMonth_next(ym) ==
    IF ym.month = 12
    THEN [overflow |-> Year_next(ym.year).overflow,
          ym       |-> YearMonth(Year_next(ym.year).year, 1)]
    ELSE [overflow |-> FALSE, ym |-> YearMonth(ym.year, wrapping_next(ym.month))]

YearMonth_prev(ym) ==
    IF ym.month = 1
    THEN [overflow |-> Year_prev(ym.year).overflow,
          ym       |-> YearMonth(Year_prev(ym.year).year, 12)]
    ELSE [overflow |-> FALSE, ym |-> YearMonth(ym.year, wrapping_prev(ym.month))]

Date(year, month, day) == [year |-> year, month |-> month, day |-> day]

NoGregorianDate == Date(0, 0, 0)

DateResult(kind, date) == [kind |-> kind, date |-> date]

\* InvalidDayForMonth::check
InvalidDayForMonth_check(year, month, day) ==
    ~(day < 1 \/ day > total_days(year, month))

\* YearMonth::with_day
with_day(ym, day) ==
    IF InvalidDayForMonth_check(ym.year, ym.month, day)
    THEN DateResult("Ok", Date(ym.year, ym.month, day))
    ELSE DateResult("InvalidDayForMonth", NoGregorianDate)

\* Date::new for a year: i16, a month: u8 and a day: u8
Date_new(year, month, day) ==
    IF ~Month_new(month).ok
    THEN DateResult("InvalidMonthNumber", NoGregorianDate)
    ELSE with_day(YearMonth(year, Month_new(month).month), day)

\* Date::next: [overflow, date]
Date_next(date) ==
    IF date.day = total_days(date.year, date.month)
    THEN LET following == YearMonth_next(YearMonth(date.year, date.month)) IN
         [overflow |-> following.overflow,
          date     |-> Date(following.ym.year, following.ym.month, 1)]
    ELSE [overflow |-> FALSE, date |-> Date(date.year, date.month, date.day + 1)]

\* a prev that takes every month to have 31 days
Date_prevThirtyOne(date) ==
    IF date.day = 1
    THEN LET preceding == YearMonth_prev(YearMonth(date.year, date.month)) IN
         [overflow |-> preceding.overflow,
          date     |-> Date(preceding.ym.year, preceding.ym.month, 31)]
    ELSE [overflow |-> FALSE, date |-> Date(date.year, date.month, date.day - 1)]

\* Date::prev: [overflow, date]
Date_prev(date) ==
    IF date.day = 1
    THEN LET preceding == YearMonth_prev(YearMonth(date.year, date.month)) IN
         [overflow |-> preceding.overflow,
          date     |-> Date(preceding.ym.year, preceding.ym.month,
                            total_days(preceding.ym.year, preceding.ym.month))]
    ELSE [overflow |-> FALSE, date |-> Date(date.year, date.month, date.day - 1)]

\* #[derive(Ord)] of Date: by year, then by month, then by day
DateLess(a, b) ==
    \/ a.year < b.year
    \/ a.year = b.year /\ a.month < b.month
    \/ a.year = b.year /\ a.month = b.month /\ a.day < b.day

\* Year::first_day and Year::last_day
Year_first_day(year) == Date(year, 1, 1)

Year_last_day(year) == Date(year, 12, 31)

\* YearMonth::first_day and YearMonth::last_day
YearMonth_first_day(ym) == Date(ym.year, ym.month, 1)

YearMonth_last_day(ym) == Date(ym.year, ym.month, total_days(ym.year, ym.month))

\* str::parse::<i16>: an optional '+' or '-', then digits, in range
ParseI16(s) ==
    IF ParseI32(s).ok /\ ParseI32(s).val >= I16Min /\ ParseI32(s).val <= I16Max
    THEN ParseI32(s) ELSE [ok |-> FALSE, val |-> 0]

\* str::parse::<u8>: an optional '+', then digits, in range
ParseU8(s) ==
    IF s # <<>> /\ s[1] # "-" /\ ParseI32(s).ok /\ ParseI32(s).val <= U8Max
    THEN ParseI32(s) ELSE [ok |-> FALSE, val |-> 0]

\* Date::from_str
Date_from_str(s) ==
    LET fields == SplitN(s, 3, "-") IN
    IF Len(fields) < 3
    THEN DateResult("InvalidDateSyntax", NoGregorianDate)
    ELSE IF ~ParseI16(fields[1]).ok \/ ~ParseU8(fields[2]).ok \/ ~ParseU8(fields[3]).ok
    THEN DateResult("InvalidDateSyntax", NoGregorianDate)
    ELSE Date_new(ParseI16(fields[1]).val, ParseU8(fields[2]).val, ParseU8(fields[3]).val)

\* Display for Date: write!(f, "{:04}-{:02}-{:02}", year, month, day)
DateDisplay(date) ==
    FormatInt(date.year, FALSE, 4) \o <<"-">> \o FormatInt(date.month, FALSE, 2)
        \o <<"-">> \o FormatInt(date.day, FALSE, 2)

----------------------------------------------------------------------------
(* A Date is made with Date::new from any numbers, next() and prev() are   *)
(* called on it, and the last Date is formatted and parsed again           *)

MaxCalls == 2

\* the first and the last year of i16, the years around 0, a century that is
\* no leap year, one that is, a leap year and the years next to it
YearInputs == {I16Min, -4, -1, 0, 1900, 2000, 2019, 2020, 2021, I16Max}

MonthInputs == (0..13) \cup {U8Max}

\* the days at the start, in the middle and around the end of a month
DayInputs == {0, 1, 2, 15, U8Max} \cup (27..32)

Current == trail[Len(trail)]

CalendarInit ==
    /\ overflow_checks \in BOOLEAN
    /\ args \in YearInputs \X MonthInputs \X DayInputs
    /\ made = NoDateResult
    /\ trail = <<>>
    /\ calls = <<>>
    /\ shown = <<>>
    /\ reparsed = NoDateResult
    /\ cpc = "start"
    /\ LedgerIdle
    /\ TreeIdle
    /\ AccountIdle
    /\ WriteIdle
    /\ PureIdle

\* Date::new(year, month, day)
New ==
    /\ cpc = "start"
    /\ made' = Date_new(args[1], args[2], args[3])
    /\ trail' = IF made'.kind = "Ok" THEN <<made'.date>> ELSE <<>>
    /\ cpc' = IF made'.kind = "Ok" THEN "made" ELSE "failed"
    /\ UNCHANGED <<args, calls, shown, reparsed, calendarOthers>>

\* one more call on the last Date: what it returns when no addition or
\* subtraction overflows, or when the build lets them wrap
Stepped(call, stepped) ==
    /\ cpc = "made"
    /\ Len(calls) < MaxCalls
    /\ ~(overflow_checks /\ stepped.overflow)
    /\ trail' = Append(trail, stepped.date)
    /\ calls' = Append(calls, call)
    /\ UNCHANGED <<args, made, shown, reparsed, cpc, calendarOthers>>

\* the call panics: `attempt to add (subtract) with overflow`
StepPanics(stepped) ==
    /\ cpc = "made"
    /\ Len(calls) < MaxCalls
    /\ overflow_checks /\ stepped.overflow
    /\ cpc' = "panic"
    /\ UNCHANGED <<args, made, trail, calls, shown, reparsed, calendarOthers>>

DateNext == cpc = "made" /\ Stepped("next", Date_next(Current))

DatePrev == cpc = "made" /\ Stepped("prev", Date_prev(Current))

NextPanic == cpc = "made" /\ StepPanics(Date_next(Current))

PrevPanic == cpc = "made" /\ StepPanics(Date_prev(Current))

\* a Date made from the year or the year and month of the last Date; nothing
\* is called on it
Derived(call, date) ==
    /\ cpc = "made"
    /\ Len(calls) < MaxCalls
    /\ trail' = Append(trail, date)
    /\ calls' = Append(calls, call)
    /\ cpc' = "derived"
    /\ UNCHANGED <<args, made, shown, reparsed, calendarOthers>>

YearFirstDay == cpc = "made" /\ Derived("Year::first_day", Year_first_day(Current.year))

YearLastDay == cpc = "made" /\ Derived("Year::last_day", Year_last_day(Current.year))

YearMonthFirstDay ==
    /\ cpc = "made"
    /\ Derived("YearMonth::first_day",
               YearMonth_first_day(YearMonth(Current.year, Current.month)))

YearMonthLastDay ==
    /\ cpc = "made"
    /\ Derived("YearMonth::last_day",
               YearMonth_last_day(YearMonth(Current.year, Current.month)))

\* format!("{}", date)
Display ==
    /\ cpc = "made"
    /\ shown' = DateDisplay(Current)
    /\ cpc' = "shown"
    /\ UNCHANGED <<args, made, trail, calls, reparsed, calendarOthers>>

\* Date::from_str on the formatted text
FromStr ==
    /\ cpc = "shown"
    /\ reparsed' = Date_from_str(shown)
    /\ cpc' = "parsed"
    /\ UNCHANGED <<args, made, trail, calls, shown, calendarOthers>>

CalendarNext ==
    \/ New
    \/ DateNext
    \/ DatePrev
    \/ NextPanic
    \/ PrevPanic
    \/ YearFirstDay
    \/ YearLastDay
    \/ YearMonthFirstDay
    \/ YearMonthLastDay
    \/ Display
    \/ FromStr

CalendarSpec == CalendarInit /\ [][CalendarNext]_vars

----------------------------------------------------------------------------
\* the days of a month under the Gregorian rule
GregorianDays(y, m) ==
    IF m = 2
    THEN (IF (y % 4 = 0 /\ y % 100 # 0) \/ y % 400 = 0 THEN 29 ELSE 28)
    ELSE IF m \in {4, 6, 9, 11} THEN 30 ELSE 31

(* C18: Date::new(y, m, d) fails with InvalidMonthNumber when m is outside *)
(* 1..12, with InvalidDayForMonth when m is a month and d is outside       *)
(* 1..days-in-month(y, m), and otherwise succeeds with the Date of exactly *)
(* these fields; every Date it returns is in range.                        *)
C18_DateNew ==
    cpc # "start" =>
        LET y == args[1]
            m == args[2]
            d == args[3]
        IN /\ made.kind = "InvalidMonthNumber" <=> m \notin 1..12
           /\ made.kind = "InvalidDayForMonth" <=>
                 (m \in 1..12 /\ d \notin 1..GregorianDays(y, m))
           /\ made.kind = "Ok" <=> (m \in 1..12 /\ d \in 1..GregorianDays(y, m))
           /\ made.kind = "Ok" => made.date = [year |-> y, month |-> m, day |-> d]

\* 29 February 2000 is made
C18_Witness ==
    /\ cpc = "made"
    /\ args = <<2000, 2, 29>>
    /\ made.kind = "Ok"
    /\ made.date = [year |-> 2000, month |-> 2, day |-> 29]

----------------------------------------------------------------------------
(* C19: next() and prev() are mutual inverses on every valid Date: neither *)
(* call fails, a prev() after a next() returns the Date before the two     *)
(* calls, and so does a next() after a prev().                             *)
C19_NextPrevInverse ==
    /\ cpc # "panic"
    /\ \A i \in 1..(Len(calls) - 1) :
          {calls[i], calls[i + 1]} = {"next", "prev"} => trail[i + 2] = trail[i]

----------------------------------------------------------------------------
(* C20: the Display text of every Date that Date::new returns, negative    *)
(* years included, parses with Date::from_str to an equal Date.            *)
C20_DisplayRoundTrip ==
    (cpc = "parsed" /\ calls = <<>>) =>
        /\ reparsed.kind = "Ok"
        /\ reparsed.date = made.date

----------------------------------------------------------------------------
\* the Date is one that Date::new accepts
ValidDate(date) ==
    /\ date.year \in I16Min..I16Max
    /\ date.month \in 1..12
    /\ 1 <= date.day /\ date.day <= total_days(date.year, date.month)

(* C25: every Date that next() and prev() return from a valid Date, and    *)
(* every Date that Year::first_day, Year::last_day, YearMonth::first_day   *)
(* and YearMonth::last_day return, has 1 <= day <= total_days(year,        *)
(* month); a call returns a new Date and leaves the Dates before it as     *)
(* they were.                                                              *)
C25_DatesStayValid ==
    /\ [](\A i \in 1..Len(trail) : ValidDate(trail[i]))
    /\ [][\A i \in 1..Len(trail) : i <= Len(trail') /\ trail'[i] = trail[i]]_vars

\* prev() of 1 March 2020 is 29 February 2020
C25_Witness ==
    /\ calls = <<"prev">>
    /\ trail = <<Date(2020, 3, 1), Date(2020, 2, 29)>>

----------------------------------------------------------------------------
\* the valid Dates of the years of a and b
DatesOfYears(a, b) ==
    {date \in [year : {a.year, b.year}, month : 1..12, day : 1..31] :
        date.day <= GregorianDays(date.year, date.month)}

\* b is the valid Date that comes next after a
ImmediatelyBefore(a, b) ==
    /\ DateLess(a, b)
    /\ b.year <= a.year + 1
    /\ ~\E date \in DatesOfYears(a, b) : DateLess(a, date) /\ DateLess(date, b)

(* C26: in the order by (year, month number, day), d.next() is the Date    *)
(* right after d: d < d.next() with no valid Date between them; d.prev()   *)
(* is the Date right before d.                                             *)
C26_NextIsSuccessor ==
    \A i \in 1..Len(calls) :
        /\ calls[i] = "next" => ImmediatelyBefore(trail[i], trail[i + 1])
        /\ calls[i] = "prev" => ImmediatelyBefore(trail[i + 1], trail[i])

----------------------------------------------------------------------------
(* Date::from_str on any text                                              *)

YearFields  == {<<"2", "0", "1", "9">>, <<"2", "0", "2", "0">>, <<"0">>, <<"+", "1">>,
                <<"4", "0", "0", "0", "0">>, <<"x">>, <<>>}

MonthFields == {<<"0", "1">>, <<"2">>, <<"1", "2">>, <<"1", "3">>, <<"3", "0">>, <<"0">>,
                <<"3", "0", "0">>, <<"+", "2">>, <<"1", "x">>, <<>>}

DayFields   == {<<"0", "2">>, <<"2", "8">>, <<"2", "9">>, <<"3", "0">>, <<"3", "1">>,
                <<"3", "2">>, <<"0">>, <<"2", "5", "6">>, <<" ", "1">>, <<"1", "-", "1">>, <<>>}

\* texts of three fields, of two, of one, and "not-a-date"
DateTextInputs ==
    {y \o <<"-">> \o m \o <<"-">> \o d : y \in YearFields, m \in MonthFields, d \in DayFields}
    \cup {y \o <<"-">> \o m : y \in YearFields, m \in MonthFields}
    \cup YearFields
    \cup {<<"n", "o", "t", "-", "a", "-", "d", "a", "t", "e">>}

DateTextInit ==
    /\ overflow_checks = FALSE
    /\ args = <<0, 0, 0>>
    /\ made = NoDateResult
    /\ trail = <<>>
    /\ calls = <<>>
    /\ shown \in DateTextInputs
    /\ reparsed = NoDateResult
    /\ cpc = "shown"
    /\ LedgerIdle
    /\ TreeIdle
    /\ AccountIdle
    /\ WriteIdle
    /\ PureIdle

DateTextNext == FromStr

DateTextSpec == DateTextInit /\ [][DateTextNext]_vars

\* all the fields of a text between its '-' characters
Fields(s) == SplitN(s, Len(s) + 1, "-")

\* a decimal number, with or without a '+' in front
IsNumber(f) == AllDigits(f) \/ (f # <<>> /\ f[1] = "+" /\ AllDigits(Tail(f)))

NumberValue(f) == IF f[1] = "+" THEN DigitsValue(Tail(f)) ELSE DigitsValue(f)

(* C21: Date::from_str answers InvalidDateSyntax exactly when the text     *)
(* does not split on '-' into three fields that are all numbers, and       *)
(* otherwise what Date::new answers on the three numbers: a month outside  *)
(* 1..12 or a day outside the month is an InvalidDate, not a syntax error. *)
C21_FromStr ==
    cpc = "parsed" =>
        LET fields == Fields(shown) IN
        IF Len(fields) = 3 /\ \A i \in 1..3 : IsNumber(fields[i])
        THEN LET y == NumberValue(fields[1])
                 m == NumberValue(fields[2])
                 d == NumberValue(fields[3])
             IN /\ reparsed.kind = Date_new(y, m, d).kind
                /\ reparsed.kind = "Ok" => reparsed.date = Date(y, m, d)
        ELSE reparsed.kind = "InvalidDateSyntax"

----------------------------------------------------------------------------
(* The two leap year functions, each called on any year of its type        *)

MaxLeapYear == 410

\* the years around 0 and some years of the claim, for both functions
SmallYears == (-MaxLeapYear..MaxLeapYear) \cup {1900, 2000, 2019, 2020, 2021, I16Min, I16Max}

\* is_leap_year takes an i32
LargeYears == {I32Min, -2000000, -40000, 40000, 2000000, I32Max}

LeapInit ==
    /\ overflow_checks = FALSE
    /\ subject \in SmallYears \cup LargeYears
    /\ answer = NoCall
    /\ LedgerIdle
    /\ TreeIdle
    /\ AccountIdle
    /\ WriteIdle
    /\ CalendarIdle

\* Year::new(subject).has_leap_day()
HasLeapDay ==
    /\ answer.op = "none"
    /\ subject \in I16Min..I16Max
    /\ answer' = Call("has_leap_day", has_leap_day(subject))
    /\ UNCHANGED <<subject, pureOthers>>

\* is_leap_year(subject) of the ledger date
IsLeapYear ==
    /\ answer.op = "none"
    /\ answer' = Call("is_leap_year", is_leap_year(subject))
    /\ UNCHANGED <<subject, pureOthers>>

LeapNext ==
    \/ HasLeapDay
    \/ IsLeapYear

LeapSpec == LeapInit /\ [][LeapNext]_vars

\* k divides y
Divides(k, y) == y % k = 0

(* C22: has_leap_day(y) is true exactly when y is divisible by 4 and not   *)
(* by 100, or divisible by 400, for positive, zero and negative years, and *)
(* is_leap_year gives that same answer for every year.                     *)
C22_LeapYear ==
    answer.op \in {"has_leap_day", "is_leap_year"} =>
        (answer.value <=>
            (Divides(4, subject) /\ (~Divides(100, subject) \/ Divides(400, subject))))

\* the year -400 has a leap day
C22_Witness ==
    /\ subject = -400
    /\ answer.op = "has_leap_day"
    /\ answer.value = TRUE

----------------------------------------------------------------------------
(* partial_date.rs: PartialDate::as_range, and the period filter of        *)
(* read_uurlog on the date of one entry                                    *)

\* PartialDate::as_range: [overflow, start, end]
as_range(partial) ==
    CASE partial.kind = "Year" ->
            [overflow |-> Year_next(partial.year).overflow,
             start    |-> Year_first_day(partial.year),
             end      |-> Year_first_day(Year_next(partial.year).year)]
      [] partial.kind = "YearMonth" ->
            [overflow |-> YearMonth_next(partial.ym).overflow,
             start    |-> YearMonth_first_day(partial.ym),
             end      |-> YearMonth_first_day(YearMonth_next(partial.ym).ym)]
      [] partial.kind = "YearMonthDay" ->
            [overflow |-> Date_next(partial.date).overflow,
             start    |-> partial.date,
             end      |-> Date_next(partial.date).date]

\* Range::contains
contains(range, date) ==
    /\ (range.start = date \/ DateLess(range.start, date))
    /\ DateLess(date, range.end)

\* the first and the last year of i16, the year 0 and a leap year
PeriodYears == {I16Min, 0, 2020, I16Max}

PeriodMonths == {1, 2, 12}

\* the dates of some years, months and days that Date::new accepts
DatesOf(years, months, days) ==
    {date \in {Date(y, m, d) : y \in years, m \in months, d \in days} :
        date.day <= total_days(date.year, date.month)}

Periods ==
    {[kind |-> "Year", year |-> y] : y \in PeriodYears}
    \cup {[kind |-> "YearMonth", ym |-> YearMonth(y, m)] : y \in PeriodYears, m \in PeriodMonths}
    \cup {[kind |-> "YearMonthDay", date |-> d] :
             d \in DatesOf(PeriodYears, PeriodMonths, {1, 28, 29, 31})}

\* the dates of the entries: in the periods and next to them
EntryDates ==
    DatesOf({I16Min, -1, 0, 1, 2019, 2020, 2021, I16Max}, {1, 2, 3, 11, 12}, {1, 2, 28, 29, 30, 31})

RangeInit ==
    /\ overflow_checks \in BOOLEAN
    /\ subject \in [period : Periods, date : EntryDates]
    /\ answer = NoCall
    /\ LedgerIdle
    /\ TreeIdle
    /\ AccountIdle
    /\ WriteIdle
    /\ CalendarIdle

\* period.as_range() returns
AsRange ==
    /\ answer.op = "none"
    /\ ~(overflow_checks /\ as_range(subject.period).overflow)
    /\ answer' = Call("as_range", [range |-> as_range(subject.period), kept |-> FALSE])
    /\ UNCHANGED <<subject, pureOthers>>

\* period.as_range() panics: `attempt to add with overflow` in Year::next
AsRangePanic ==
    /\ answer.op = "none"
    /\ overflow_checks /\ as_range(subject.period).overflow
    /\ answer' = Call("panic", [range |-> as_range(subject.period), kept |-> FALSE])
    /\ UNCHANGED <<subject, pureOthers>>

\* entries.retain(|x| period.contains(&x.date)) on the one entry
Retain ==
    /\ answer.op = "as_range"
    /\ answer' = Call("retain", [range |-> answer.value.range,
                                 kept  |-> contains(answer.value.range, subject.date)])
    /\ UNCHANGED <<subject, pureOthers>>

RangeNext ==
    \/ AsRange
    \/ AsRangePanic
    \/ Retain

RangeSpec == RangeInit /\ [][RangeNext]_vars

\* the date lies in the period
InPeriod(date, partial) ==
    CASE partial.kind = "Year" -> date.year = partial.year
      [] partial.kind = "YearMonth" ->
            date.year = partial.ym.year /\ date.month = partial.ym.month
      [] partial.kind = "YearMonthDay" -> date = partial.date

\* the first date of the period and the first date after it
PeriodStart(partial) ==
    CASE partial.kind = "Year" -> Date(partial.year, 1, 1)
      [] partial.kind = "YearMonth" -> Date(partial.ym.year, partial.ym.month, 1)
      [] partial.kind = "YearMonthDay" -> partial.date

PeriodEnd(partial) ==
    CASE partial.kind = "Year" -> Date(partial.year + 1, 1, 1)
      [] partial.kind = "YearMonth" ->
            IF partial.ym.month = 12 THEN Date(partial.ym.year + 1, 1, 1)
            ELSE Date(partial.ym.year, partial.ym.month + 1, 1)
      [] partial.kind = "YearMonthDay" ->
            LET d == partial.date IN
            IF d.day < GregorianDays(d.year, d.month) THEN Date(d.year, d.month, d.day + 1)
            ELSE IF d.month < 12 THEN Date(d.year, d.month + 1, 1)
            ELSE Date(d.year + 1, 1, 1)

(* C23: as_range returns the half-open range from the first date of the    *)
(* period to the first date after it (1 January of the next year, the      *)
(* first day of the next month, the next day), and the period filter keeps *)
(* an entry exactly when its date lies in the period.                      *)
C23_AsRange ==
    /\ answer.op # "panic"
    /\ answer.op \in {"as_range", "retain"} =>
          /\ answer.value.range.start = PeriodStart(subject.period)
          /\ answer.value.range.end = PeriodEnd(subject.period)
    /\ answer.op = "retain" =>
          (answer.value.kept <=> InPeriod(subject.date, subject.period))

----------------------------------------------------------------------------
(* uurlog/hours.rs: Hours::from_str.  A u32 is kept as its 32 bits, read   *)
(* as an i32: the values from 2^31 on are the negative ones.               *)

\* a < b for two u32
U32Less(a, b) == IF (a < 0) = (b < 0) THEN a < b ELSE b < 0

\* u32 addition: the wrapped sum and whether the sum left the u32 range
U32Add(a, b) == [overflow |-> U32Less(I32Add(a, b), a), val |-> I32Add(a, b)]

\* u32 multiplication by 60 = 32 + 16 + 8 + 4
U32Mul60(a) ==
    LET a2   == U32Add(a, a)
        a4   == U32Add(a2.val, a2.val)
        a8   == U32Add(a4.val, a4.val)
        a16  == U32Add(a8.val, a8.val)
        a32  == U32Add(a16.val, a16.val)
        a48  == U32Add(a32.val, a16.val)
        a56  == U32Add(a48.val, a8.val)
        a60  == U32Add(a56.val, a4.val)
    IN [overflow |-> \E part \in {a2, a4, a8, a16, a32, a48, a56, a60} : part.overflow,
        val      |-> a60.val]

\* the u32 that a string of digits denotes, modulo 2^32
RECURSIVE U32DigitsValue(_)
U32DigitsValue(ds) ==
    IF ds = <<>> THEN 0
    ELSE LET front == U32DigitsValue(SubSeq(ds, 1, Len(ds) - 1))
             x2    == I32Add(front, front)
             x8    == I32Add(I32Add(x2, x2), I32Add(x2, x2))
         IN I32Add(I32Add(x8, x2), DigitVal[ds[Len(ds)]])

\* str::parse::<u32>: an optional '+', then one or more ASCII digits, at most 4294967295
ParseU32(s) ==
    LET ds  == IF s # <<>> /\ s[1] = "+" THEN Tail(s) ELSE s
        sig == StripZeros(ds)
    IN IF ds = <<>> \/ \E i \in 1..Len(ds) : ds[i] \notin Digit
       THEN [ok |-> FALSE, val |-> 0]
       ELSE IF Len(sig) > 10 \/
               (Len(sig) = 10 /\
                ~DigitsLeq(sig, <<"4", "2", "9", "4", "9", "6", "7", "2", "9", "5">>))
       THEN [ok |-> FALSE, val |-> 0]
       ELSE [ok |-> TRUE, val |-> U32DigitsValue(sig)]

HoursErr == [ok |-> FALSE, overflow |-> FALSE, minutes |-> 0]

\* Hours::from_str: Ok(total minutes) or Err, and whether `hours * 60` or
\* `total += minutes` overflowed on the way
Hours_from_str(text) ==
    IF text = <<>> THEN HoursErr
    ELSE
    LET byH     == Partition(text, "h")
        hours   == ParseU32(byH.left)
        product == U32Mul60(hours.val)
        total1  == IF byH.found THEN product.val ELSE 0
        over1   == byH.found /\ product.overflow
        rest1   == IF byH.found THEN byH.right ELSE text
        byM     == Partition(rest1, "m")
        minutes == ParseU32(byM.left)
        sum     == U32Add(total1, minutes.val)
        total2  == IF byM.found THEN sum.val ELSE total1
        over2   == byM.found /\ sum.overflow
        rest2   == IF byM.found THEN byM.right ELSE rest1
    IN IF byH.found /\ ~hours.ok THEN HoursErr
       ELSE IF byM.found /\ ~minutes.ok THEN [HoursErr EXCEPT !.overflow = over1]
       ELSE IF rest2 # <<>> THEN [HoursErr EXCEPT !.overflow = over1 \/ over2]
       ELSE [ok |-> TRUE, overflow |-> over1 \/ over2, minutes |-> total2]

\* numbers with and without a sign, around the first hours that do not fit
\* in minutes and around the end of u32, and texts that are no number
HoursNumbers ==
    {<<"0">>, <<"5">>, <<"1", "0">>, <<"1", "2">>, <<"7", "0">>, <<"+", "5">>,
     <<"7", "1", "5", "8", "2", "7", "8", "8">>, <<"7", "1", "5", "8", "2", "7", "8", "9">>,
     <<"4", "2", "9", "4", "9", "6", "7", "2", "9", "5">>,
     <<"4", "2", "9", "4", "9", "6", "7", "2", "9", "6">>,
     <<>>, <<"x">>, <<" ", "5">>}

HoursTexts ==
    {n1 \o u1 \o n2 \o u2 :
        n1 \in HoursNumbers, n2 \in HoursNumbers,
        u1 \in {<<>>, <<"h">>, <<"m">>, <<"h", " ">>},
        u2 \in {<<>>, <<"m">>, <<"h">>, <<"m", "x">>}}

HoursInit ==
    /\ overflow_checks \in BOOLEAN
    /\ subject \in HoursTexts
    /\ answer = NoCall
    /\ LedgerIdle
    /\ TreeIdle
    /\ AccountIdle
    /\ WriteIdle
    /\ CalendarIdle

\* Hours::from_str(subject) returns
HoursFromStr ==
    /\ answer.op = "none"
    /\ ~(overflow_checks /\ Hours_from_str(subject).overflow)
    /\ answer' = Call("from_str", Hours_from_str(subject))
    /\ UNCHANGED <<subject, pureOthers>>

\* Hours::from_str(subject) panics: `attempt to multiply (add) with overflow`
HoursFromStrPanic ==
    /\ answer.op = "none"
    /\ overflow_checks /\ Hours_from_str(subject).overflow
    /\ answer' = Call("panic", Hours_from_str(subject))
    /\ UNCHANGED <<subject, pureOthers>>

HoursNext ==
    \/ HoursFromStr
    \/ HoursFromStrPanic

HoursSpec == HoursInit /\ [][HoursNext]_vars

\* a natural number as the pair of its part above and its part below 2^16
RECURSIVE WideDigits(_)
WideDigits(ds) ==
    IF ds = <<>> THEN [hi |-> 0, lo |-> 0]
    ELSE LET front == WideDigits(SubSeq(ds, 1, Len(ds) - 1))
             low   == front.lo * 10 + DigitVal[ds[Len(ds)]]
         IN [hi |-> front.hi * 10 + low \div 65536, lo |-> low % 65536]

WideNumber(f) == WideDigits(IF f # <<>> /\ f[1] = "+" THEN Tail(f) ELSE f)

\* h * 60 + m
WideMinutes(h, m) ==
    LET low == h.lo * 60 + m.lo
    IN [hi |-> h.hi * 60 + m.hi + low \div 65536, lo |-> low % 65536]

\* the u32 of the given 32 bits as such a pair
U32Wide(a) == [hi |-> (a \div 65536) % 65536, lo |-> a % 65536]

\* the text is <H>h, <M>m or <H>h<M>m; its H and its M, "0" where it has none
HoursPart(t) == IF Find(t, "h") = 0 THEN <<"0">> ELSE SubSeq(t, 1, Find(t, "h") - 1)

AfterHours(t) == SubSeq(t, Find(t, "h") + 1, Len(t))

MinutesPart(t) ==
    IF AfterHours(t) = <<>> THEN <<"0">> ELSE SubSeq(AfterHours(t), 1, Len(AfterHours(t)) - 1)

IsHoursText(t) ==
    /\ t # <<>>
    /\ t[Len(t)] \in {"h", "m"}
    /\ IsNumber(HoursPart(t))
    /\ IsNumber(MinutesPart(t))
    /\ AfterHours(t) # <<>> => AfterHours(t)[Len(AfterHours(t))] = "m"

(* C24: Hours::from_str accepts exactly the texts <H>h, <M>m and <H>h<M>m  *)
(* of decimal numbers and returns H * 60 + M minutes; every other text,    *)
(* the empty one, `10` and `10h 50m` included, is an HoursParseError.      *)
C24_HoursFromStr ==
    /\ answer.op # "panic"
    /\ answer.op = "from_str" =>
          IF IsHoursText(subject)
          THEN /\ answer.value.ok
               /\ U32Wide(answer.value.minutes) =
                      WideMinutes(WideNumber(HoursPart(subject)),
                                  WideNumber(MinutesPart(subject)))
          ELSE ~answer.value.ok

-----------------------------------------------------------------------------
(* Cents arithmetic: the amount of a mutation and the sums of amounts        *)

MaxAmounts == 2

AmountTokens ==
    {<<"+", "1", ".", "0", "0">>,
     <<"-", "5">>,
     <<"+", "0", ".", "5", "0">>,
     <<"-", "0", ".", "5", "0">>,
     <<"+", "2", "1", "4", "7", "4", "8", "3", "6", ".", "4", "7">>,
     <<"-", "2", "1", "4", "7", "4", "8", "3", "6", ".", "4", "7">>,
     <<"+", "2", "1", "4", "7", "4", "8", "3", "6", ".", "4", "8">>,
     <<"-", "2", "1", "4", "7", "4", "8", "3", "6", ".", "4", "8">>,
     <<"+", "2", "1", "4", "7", "4", "8", "3", "7">>,
     <<"+", "9", "9", "9", "9", "9", "9", "9", "9", ".", "9", "9">>}

\* a * 100 leaves the i32 range
I32Mul100Overflows(a) == a > I32Max \div 100 \/ a < -(I32Max \div 100)

\* the amount of the mutation line "<token> a", as Mutation::parse_from_str reads it
AmountParse(token) == MutationParse(token \o <<" ", "a">>)

\* whole * 100, whole * 100 + decimals or amount * sign leaves the i32 range
AmountOverflows(token) ==
    LET s        == Tail(token)
        p        == Partition(s, ".")
        whole    == ParseI32(IF p.found THEN p.left ELSE s)
        decimals == ParseI32(p.right)
    IN /\ AmountParse(token).kind = "Ok"
       /\ \/ I32Mul100Overflows(whole.val)
          \/ p.found /\ I32AddOverflows(I32Mul100(whole.val), decimals.val)
          \/ SignOf(token) = "minus" /\ CentsParse(s).val = I32Min

Parsed == IF answer.op = "none" THEN <<>> ELSE answer.value.parsed

CentsInit ==
    /\ overflow_checks \in BOOLEAN
    /\ subject \in UNION {[1..n -> AmountTokens] : n \in 1..MaxAmounts}
    /\ answer = NoCall
    /\ LedgerIdle
    /\ TreeIdle
    /\ AccountIdle
    /\ WriteIdle
    /\ CalendarIdle

\* Mutation::parse_from_str returns the amount of the next mutation
ParseAmount ==
    /\ answer.op \in {"none", "parse"}
    /\ Len(Parsed) < Len(subject)
    /\ LET token == subject[Len(Parsed) + 1]
           r     == AmountParse(token)
       IN /\ ~(overflow_checks /\ AmountOverflows(token))
          /\ answer' = IF r.kind = "Ok"
                       THEN Call("parse", [parsed |-> Append(Parsed, r.mutation.amount),
                                           total |-> 0, added |-> 0])
                       ELSE Call("Err", [parsed |-> Parsed, total |-> 0, added |-> 0])
    /\ UNCHANGED <<subject, pureOthers>>

\* it panics: `attempt to multiply (add) with overflow`
ParseAmountPanic ==
    /\ answer.op \in {"none", "parse"}
    /\ Len(Parsed) < Len(subject)
    /\ overflow_checks /\ AmountOverflows(subject[Len(Parsed) + 1])
    /\ answer' = Call("panic", [parsed |-> Parsed, total |-> 0, added |-> 0])
    /\ UNCHANGED <<subject, pureOthers>>

\* Cents::add (add_assign) of the next amount to the running sum
AddAmount ==
    /\ answer.op \in {"parse", "add"}
    /\ Len(Parsed) = Len(subject)
    /\ answer.value.added < Len(Parsed)
    /\ LET amount == Parsed[answer.value.added + 1]
       IN /\ ~(overflow_checks /\ I32AddOverflows(answer.value.total, amount))
          /\ answer' = Call("add", [parsed |-> Parsed,
                                    total  |-> I32Add(answer.value.total, amount),
                                    added  |-> answer.value.added + 1])
    /\ UNCHANGED <<subject, pureOthers>>

\* it panics: `attempt to add with overflow`
AddAmountPanic ==
    /\ answer.op \in {"parse", "add"}
    /\ Len(Parsed) = Len(subject)
    /\ answer.value.added < Len(Parsed)
    /\ overflow_checks
    /\ I32AddOverflows(answer.value.total, Parsed[answer.value.added + 1])
    /\ answer' = Call("panic", answer.value)
    /\ UNCHANGED <<subject, pureOthers>>

CentsNext ==
    \/ ParseAmount
    \/ ParseAmountPanic
    \/ AddAmount
    \/ AddAmountPanic

CentsSpec == CentsInit /\ [][CentsNext]_vars

\* w * 100 + d, and -w, for a natural number w as a pair of 16-bit parts
WideCents(w, d) ==
    LET low == w.lo * 100 + d
    IN [hi |-> w.hi * 100 + low \div 65536, lo |-> low % 65536]

WideNeg(w) ==
    IF w.lo = 0 THEN [hi |-> -w.hi, lo |-> 0] ELSE [hi |-> -w.hi - 1, lo |-> 65536 - w.lo]

\* the integer that the token <sign><whole>[.<dd>] denotes, in cents
ExactAmount(token) ==
    LET s     == Tail(token)
        p     == Partition(s, ".")
        whole == WideDigits(IF p.found THEN p.left ELSE s)
        cents == WideCents(whole, IF p.found THEN DigitsValue(p.right) ELSE 0)
    IN IF token[1] = "-" THEN WideNeg(cents) ELSE cents

\* C27: every amount the parser computes (whole * 100 + decimals, times the
\* sign) and every sum that Cents addition accumulates is the mathematical
\* integer; nothing wraps around and nothing fails on the 32-bit range.
C27_ExactCents ==
    /\ answer.op # "panic"
    /\ answer.op \in {"parse", "add"} =>
          /\ \A i \in 1..Len(Parsed) : Wide(Parsed[i]) = ExactAmount(subject[i])
          /\ Wide(answer.value.total) =
                 MathSum([i \in 1..answer.value.added |-> [amount |-> Parsed[i]]])

-----------------------------------------------------------------------------
(* The shape of the tree of compute_totals                                   *)

\* below `node` no node has two children with the same account, the children
\* of the root have an account without '/', and the account of every other
\* child has the account of its node as parent()
RECURSIVE IsTrie(_, _)
IsTrie(node, is_root) ==
    /\ \A i, j \in 1..Len(node.children) :
          node.children[i].account = node.children[j].account => i = j
    /\ \A i \in 1..Len(node.children) :
          LET child == node.children[i] IN
          /\ IF is_root
             THEN \A k \in 1..Len(child.account) : child.account[k] # "/"
             ELSE parent(child.account) = Some(node.account)
          /\ IsTrie(child, FALSE)

\* every node below `old` is below `new` at the same place, with the same
\* account and, unless its account is on the chain, with the same balance
RECURSIVE KeptOffChain(_, _, _)
KeptOffChain(old, new, chain) ==
    \A i \in 1..Len(old.children) :
        \E j \in 1..Len(new.children) :
            /\ new.children[j].account = old.children[i].account
            /\ old.children[i].account \notin chain =>
                  new.children[j].data = old.children[i].data
            /\ KeptOffChain(old.children[i], new.children[j], chain)

\* the step is a call of Tree::insert that returns
InsertReturns == tpc = "loop" /\ tpc' = "loop" /\ cursor' = cursor + 1

Chain(raw) == {walk_nodes(raw)[k] : k \in 1..Len(walk_nodes(raw))}

(* C28: after any sequence of Tree::insert calls the tree is a trie over    *)
(* account paths: no node has two children with the same account, every    *)
(* child of the root has an account without '/', every child of another    *)
(* node has an account whose parent() is that node's account; an insert     *)
(* removes and renames no node and changes the balance of no node other     *)
(* than the root and the nodes of the walk_nodes chain of its account.      *)
C28_TreeIsTrie ==
    /\ [](TreeAlive => IsTrie(totals, TRUE))
    /\ [][InsertReturns =>
             KeptOffChain(totals, totals', Chain(seen[Len(seen)][cursor + 1].account))]_vars

\* a/b +100, a -150 and a/c +50 inserted: the third insert found the node a,
\* gave it the second child a/c and left the balance of a/b as it was
C28_Witness ==
    /\ TreeAlive
    /\ Len(Inserted) = 3
    /\ Inserted[1] = [amount |-> 100, account |-> Acc_ab]
    /\ Inserted[3] = [amount |-> 50, account |-> Acc_ac]
    /\ \E node \in BelowRoot(totals) :
          /\ node.account = Acc_a
          /\ Len(node.children) = 2
          /\ node.children[1].account = Acc_ab
          /\ node.children[1].data = 100
          /\ node.children[2].account = Acc_ac

-----------------------------------------------------------------------------
(* compute_totals on the same mutations in another order                     *)

\* compute_totals on transactions whose mutations are, in order, ms: the tree
\* it returns, or that it panics on an overflowing addition
RECURSIVE compute_totals(_)
compute_totals(ms) ==
    IF ms = <<>> THEN [panic |-> FALSE, root |-> Tree_new(0)]
    ELSE LET before   == compute_totals(SubSeq(ms, 1, Len(ms) - 1))
             mutation == ms[Len(ms)]
         IN IF \/ before.panic
               \/ /\ overflow_checks
                  /\ insertOverflows(before.root, mutation.account, mutation.amount)
            THEN [panic |-> TRUE, root |-> Tree_new(0)]
            ELSE [panic |-> FALSE,
                  root  |-> insert(before.root, mutation.account, mutation.amount)]

\* the orderings of a sequence
Orderings(ms) ==
    {[i \in 1..Len(ms) |-> ms[f[i]]] :
        f \in {g \in [1..Len(ms) -> 1..Len(ms)] :
                  \A i, j \in 1..Len(ms) : g[i] = g[j] => i = j}}

\* the account nodes of a tree with their balances, and the balance of the root
Balances(root) ==
    [total |-> root.data,
     nodes |-> {[account |-> node.account, data |-> node.data] : node \in BelowRoot(root)}]

(* C29: the balances computed by compute_totals do not depend on the order  *)
(* of insertion: for every other ordering of the mutations of a run that    *)
(* returned a tree, compute_totals returns a tree with the same account     *)
(* nodes and the same balance at every node and at the root.                *)
C29_OrderIndependent ==
    tpc = "returned" =>
        \A ms \in Orderings(Inserted) :
            /\ ~compute_totals(ms).panic
            /\ Balances(compute_totals(ms).root) = Balances(totals)

-----------------------------------------------------------------------------
(* compute_totals and find_unbalanced on the same transactions               *)

\* the transactions compute_totals was given, as find_unbalanced takes them
Transactions == [i \in 1..Len(seen) |-> [mutations |-> seen[i]]]

\* some `sum + mutation.amount` of the fold of find_unbalanced overflows
RECURSIVE BalanceOverflows(_)
BalanceOverflows(mutations) ==
    IF mutations = <<>> THEN FALSE
    ELSE LET front == SubSeq(mutations, 1, Len(mutations) - 1)
         IN \/ BalanceOverflows(front)
            \/ I32AddOverflows(Balance(front), mutations[Len(mutations)].amount)

\* the residuals find_unbalanced reports
Residuals ==
    [i \in 1..Len(find_unbalanced(Transactions)) |->
        [amount |-> find_unbalanced(Transactions)[i].balance]]

(* C30: for any sequence of transactions the root total that compute_totals *)
(* returns equals the sum of the residuals that find_unbalanced reports for *)
(* the same transactions; when it reports nothing the root total is zero.   *)
C30_RootIsSumOfResiduals ==
    tpc = "returned" =>
        /\ \A i \in 1..Len(seen) : ~(overflow_checks /\ BalanceOverflows(seen[i]))
        /\ Wide(totals.data) = MathSum(Residuals)

====
